---- MODULE Spec2Model ----
(***************************************************************************)
(* Water-rate simulator: the tier validation, the billing calculator, the  *)
(* perceived-price model, the equilibrium solver and the single-point      *)
(* demand engine of lib/demand.ts, the Monte Carlo engine and analytics of *)
(* lib/montecarlo.ts, and the state of the two React components.           *)
(*                                                                         *)
(* Numbers.  A JavaScript number is modelled by an integer count of a      *)
(* resolution step.  Volumes (usage, tier bounds) are counted in 1/kgal    *)
(* of a kgal and prices in 1/dollar of a dollar; kgal and dollar are fixed *)
(* by the initial state of each specification, because TLC's integers are  *)
(* 32 bits wide: the validation specification measures volumes in          *)
(* millionths (so that the 1e-6 tolerance and the 4-decimal rounding are   *)
(* both visible), the solver specifications in coarser steps (so that      *)
(* usage * price fits).  The non-finite numbers are three reserved         *)
(* integers outside the range of every finite value of the model, and      *)
(* null is a fourth.                                                       *)
(***************************************************************************)
EXTENDS Integers, Sequences, FiniteSets, TLC

VARIABLES
  kgal,             \* resolution: model integers per kgal of volume
  dollar,           \* resolution: model integers per dollar
  pc,               \* the call the state is the result of
  tiers,            \* the caller's tier list (TierDefinition[])
  normalizedTiers,  \* what normalizeTiers returned
  validation,       \* what validateTiers returned (TierValidationResult)
  inputs,           \* the other arguments of the call (usage, elasticity, ...)
  result,           \* what the billing, solver or demand call returned
  state,            \* the React state of a component (useState values)
  heap              \* the arrays a caller holds, and those a call allocates

vars == <<kgal, dollar, pc, tiers, normalizedTiers, validation, inputs, result, state, heap>>

(***************************************************************************)
(* Bounds of the model.                                                    *)
(***************************************************************************)
MaxTiers == 3       \* longest tier list enumerated
MaxStep == 2        \* tier bounds range over 0 .. MaxStep grid steps

(***************************************************************************)
(* JavaScript numbers.                                                     *)
(***************************************************************************)
POSITIVE_INFINITY == 2000000000
NEGATIVE_INFINITY == 0 - POSITIVE_INFINITY
NaN == 2000000001
null == 2000000002

IsFinite(x) == x # NaN /\ x # POSITIVE_INFINITY /\ x # NEGATIVE_INFINITY /\ x # null

\* a > b and a <= b of IEEE numbers: false as soon as one side is NaN
Gt(a, b) == a # NaN /\ b # NaN /\ a > b

\* mutant of Le: the comparison turned round
LeTurned(a, b) == a # NaN /\ b # NaN /\ a >= b

Le(a, b) == a # NaN /\ b # NaN /\ a <= b

\* a - b
Sub(a, b) ==
  IF a = NaN \/ b = NaN THEN NaN
  ELSE IF ~IsFinite(a) THEN (IF a = b THEN NaN ELSE a)
  ELSE IF ~IsFinite(b) THEN 0 - b
  ELSE a - b

\* a + b
Plus(a, b) ==
  IF a = NaN \/ b = NaN THEN NaN
  ELSE IF ~IsFinite(a) THEN (IF ~IsFinite(b) /\ a # b THEN NaN ELSE a)
  ELSE IF ~IsFinite(b) THEN b
  ELSE a + b

\* a * b
Times(a, b) ==
  IF a = NaN \/ b = NaN THEN NaN
  ELSE IF IsFinite(a) /\ IsFinite(b) THEN a * b
  ELSE IF a = 0 \/ b = 0 THEN NaN
  ELSE IF (a > 0) = (b > 0) THEN POSITIVE_INFINITY ELSE NEGATIVE_INFINITY

MathAbs(x) ==
  IF x = NaN THEN NaN
  ELSE IF x = NEGATIVE_INFINITY THEN POSITIVE_INFINITY
  ELSE IF x < 0 THEN 0 - x ELSE x

MathMax(a, b) == IF a = NaN \/ b = NaN THEN NaN ELSE IF a > b THEN a ELSE b

MathMin(a, b) == IF a = NaN \/ b = NaN THEN NaN ELSE IF a < b THEN a ELSE b

RECURSIVE Pow10(_)
Pow10(n) == IF n = 0 THEN 1 ELSE 10 * Pow10(n - 1)

\* value.toFixed(decimals) read back by parseFloat, for a finite value counted
\* in 1/scale: the nearest multiple of 10^-decimals, the larger one in
\* magnitude on a tie.  A resolution no finer than 10^-decimals holds only
\* such multiples already.
ToFixed(value, decimals, scale) ==
  LET g == scale \div Pow10(decimals)
      m == IF value < 0 THEN 0 - value ELSE value
      r == ((2 * m + g) \div (2 * g)) * g
  IN  IF g <= 1 THEN value ELSE IF value < 0 THEN 0 - r ELSE r

roundTo(value, decimals, scale) ==
  IF IsFinite(value) THEN ToFixed(value, decimals, scale) ELSE 0

(***************************************************************************)
(* Tier Set validation.                                                    *)
(***************************************************************************)
Tier(lo, up, pr) == [lower |-> lo, upper |-> up, price |-> pr]

\* tiers.map(...) of normalizeTiers
NormalizeTier(tier) ==
  Tier(MathMax(0, roundTo(IF tier.lower = null THEN 0 ELSE tier.lower, 4, kgal)),
       IF tier.upper = null THEN null ELSE roundTo(MathMax(tier.upper, 0), 4, kgal),
       MathMax(0, roundTo(IF tier.price = null THEN 0 ELSE tier.price, 6, dollar)))

\* Array.prototype.sort((a, b) => a.lower - b.lower): stable insertion of t
\* into the sorted list s
RECURSIVE InsertByLower(_, _)
InsertByLower(s, t) ==
  IF s = <<>> THEN <<t>>
  ELSE IF s[Len(s)].lower <= t.lower THEN Append(s, t)
  ELSE Append(InsertByLower(SubSeq(s, 1, Len(s) - 1), t), s[Len(s)])

RECURSIVE SortByLower(_)
SortByLower(s) ==
  IF s = <<>> THEN <<>>
  ELSE InsertByLower(SortByLower(SubSeq(s, 1, Len(s) - 1)), s[Len(s)])

normalizeTiers(ts) == SortByLower([i \in 1 .. Len(ts) |-> NormalizeTier(ts[i])])

\* mutant of createFallbackTier: priced at the last tier instead of the first
createFallbackTierLast(ts) ==
  LET fallbackPrice == IF ts = <<>> \/ ts[Len(ts)].price = null THEN 0 ELSE ts[Len(ts)].price
  IN  <<[lower |-> 0, upper |-> null, price |-> fallbackPrice]>>

createFallbackTier(ts) ==
  LET fallbackPrice == IF ts = <<>> \/ ts[1].price = null THEN 0 ELSE ts[1].price
  IN  <<Tier(0, null, fallbackPrice)>>

MsgEmpty == "Define at least one tier."
MsgContiguous == "Tiers must be contiguous with no gaps or overlaps."
MsgUpper == "Each tier's upper bound must be greater than its lower bound."
MsgFinal == "The final tier must extend to infinity."

\* mutant of Rejected: the rejected tiers handed back in place of the fallback
RejectedKeepsTiers(ts, msg) == [tiers |-> ts, isValid |-> FALSE, message |-> msg]

Rejected(ts, msg) == [tiers |-> createFallbackTier(ts), isValid |-> FALSE, message |-> msg]

\* mutant of BeyondTolerance: the tolerance taken as 1e-4
BeyondToleranceWide(d) == Gt(MathAbs(d), kgal \div 10000)

\* Math.abs(d) > 1e-6 for a difference d of volumes
BeyondTolerance(d) == Gt(MathAbs(d), kgal \div 1000000)

\* mutant of ValidateFrom: the check of the final tier left out
RECURSIVE ValidateFromNoFinal(_, _, _)
ValidateFromNoFinal(ts, i, expectedLower) ==
  IF i > Len(ts)
  THEN [tiers |-> ts, isValid |-> TRUE]
  ELSE LET tier == ts[i] IN
       IF BeyondTolerance(Sub(tier.lower, expectedLower))
       THEN Rejected(ts, MsgContiguous)
       ELSE IF tier.upper # null /\ Le(tier.upper, tier.lower)
       THEN Rejected(ts, MsgUpper)
       ELSE ValidateFromNoFinal(ts, i + 1,
                                IF tier.upper = null THEN POSITIVE_INFINITY ELSE tier.upper)

\* mutant of ValidateFrom: each tier's upper bound checked before its lower
RECURSIVE ValidateFromUpperFirst(_, _, _)
ValidateFromUpperFirst(ts, i, expectedLower) ==
  IF i > Len(ts)
  THEN IF ts[Len(ts)].upper # null
       THEN Rejected(ts, MsgFinal)
       ELSE [tiers |-> ts, isValid |-> TRUE]
  ELSE LET tier == ts[i] IN
       IF tier.upper # null /\ Le(tier.upper, tier.lower)
       THEN Rejected(ts, MsgUpper)
       ELSE IF BeyondTolerance(Sub(tier.lower, expectedLower))
       THEN Rejected(ts, MsgContiguous)
       ELSE ValidateFromUpperFirst(ts, i + 1,
                                   IF tier.upper = null THEN POSITIVE_INFINITY ELSE tier.upper)

\* the loop of validateTiers from index i on; expectedLower as the loop carries it
RECURSIVE ValidateFrom(_, _, _)
ValidateFrom(ts, i, expectedLower) ==
  IF i > Len(ts)
  THEN IF ts[Len(ts)].upper # null
       THEN Rejected(ts, MsgFinal)
       ELSE [tiers |-> ts, isValid |-> TRUE]
  ELSE LET tier == ts[i] IN
       IF BeyondTolerance(Sub(tier.lower, expectedLower))
       THEN Rejected(ts, MsgContiguous)
       ELSE IF tier.upper # null /\ Le(tier.upper, tier.lower)
       THEN Rejected(ts, MsgUpper)
       ELSE ValidateFrom(ts, i + 1,
                         IF tier.upper = null THEN POSITIVE_INFINITY ELSE tier.upper)

validateTiers(ts) ==
  IF Len(ts) = 0
  THEN Rejected(<<Tier(0, null, 0)>>, MsgEmpty)
  ELSE ValidateFrom(ts, 1, 0)

(***************************************************************************)
(* Billing calculator.  A charge is a volume times a price, counted in     *)
(* 1/(kgal * dollar) of a dollar, so that it is exact.                     *)
(***************************************************************************)
\* mutant of MarginalFrom: the tier's interval closed at its upper bound
RECURSIVE MarginalFromClosed(_, _, _)
MarginalFromClosed(u, ts, i) ==
  IF i > Len(ts)
  THEN IF ts = <<>> THEN 0 ELSE ts[Len(ts)].price
  ELSE IF u >= ts[i].lower /\ (ts[i].upper = null \/ u <= ts[i].upper)
  THEN ts[i].price
  ELSE MarginalFromClosed(u, ts, i + 1)

RECURSIVE MarginalFrom(_, _, _)
MarginalFrom(u, ts, i) ==
  IF i > Len(ts)
  THEN IF ts = <<>> THEN 0 ELSE ts[Len(ts)].price
  ELSE IF u # NaN /\ u >= ts[i].lower /\ (ts[i].upper = null \/ u < ts[i].upper)
  THEN ts[i].price
  ELSE MarginalFrom(u, ts, i + 1)

computeMarginalPrice(u, ts) == MarginalFrom(u, ts, 1)

\* mutant of Span: the usage is not capped at the tier's upper bound
SpanUncapped(u, tier) == u - tier.lower

\* Math.min(usage, upper) - tier.lower
Span(u, tier) ==
  MathMin(u, IF tier.upper = null THEN POSITIVE_INFINITY ELSE tier.upper) - tier.lower

\* the loop of computeVolumetricCharge from index i on, with the charge so far;
\* a NaN usage fails every comparison of the loop and adds nothing
RECURSIVE ChargeFrom(_, _, _, _)
ChargeFrom(u, ts, i, charge) ==
  IF i > Len(ts) \/ u = NaN THEN charge
  ELSE LET tier == ts[i]
           upper == IF tier.upper = null THEN POSITIVE_INFINITY ELSE tier.upper
           span == Span(u, tier)
           added == IF span > 0 THEN charge + span * tier.price ELSE charge
       IN  IF u <= tier.lower THEN charge
           ELSE IF u <= upper THEN added
           ELSE ChargeFrom(u, ts, i + 1, added)

\* mutant of computeVolumetricCharge: all usage billed at the marginal tier's price
computeVolumetricChargeFlat(u, ts) == u * computeMarginalPrice(u, ts)

computeVolumetricCharge(u, ts) == ChargeFrom(u, ts, 1, 0)

\* volumetric / usage, in price steps (the quotient is cut to the resolution)
computeAveragePrice(u, ts) ==
  IF u = NaN THEN NaN
  ELSE IF u <= 0 THEN 0 ELSE computeVolumetricCharge(u, ts) \div u

(***************************************************************************)
(* Perceived price and the equilibrium solver.  alpha is counted in        *)
(* tenths, the bill salience in hundredths and the elasticity in           *)
(* twentieths (steps of 0.05).                                             *)
(***************************************************************************)
BASELINE_USAGE == 7 * kgal
MIN_USAGE == kgal \div 10
MAX_USAGE == 60 * kgal
MIN_PRICE == dollar \div 100
DEFAULT_ALPHA == 7
DEFAULT_BILL_SALIENCE == 5
FIXED_POINT_ITERATIONS == 12

\* mutant of clampUsage: no upper bound
clampUsageNoMax(value) == MathMax(value, MIN_USAGE)

clampUsage(value) == MathMin(MathMax(value, MIN_USAGE), MAX_USAGE)

\* the blend of computePerceivedPrice, given the two prices at the usage
Perceived(u, marginal, average, baseFee, alpha, billSalience) ==
  LET blended == IF average = NaN THEN NaN
                 ELSE (alpha * marginal + (10 - alpha) * average) \div 10
      perUsage == IF u = NaN THEN NaN
                  ELSE IF IsFinite(baseFee) THEN 0 ELSE baseFee
      baseImpact == IF IsFinite(baseFee) /\ u # NaN
                    THEN (billSalience * baseFee * kgal) \div (100 * MathMax(u, MIN_USAGE))
                    ELSE Times(billSalience, perUsage)
  IN  Plus(blended, baseImpact)

computePerceivedPrice(u, ts, baseFee, alpha, billSalience) ==
  Perceived(u, computeMarginalPrice(u, ts), computeAveragePrice(u, ts),
            baseFee, alpha, billSalience)

(***************************************************************************)
(* Math.pow(x, y) for x = num / den > 0 and y = e / 20, in fixed point     *)
(* with PowScale steps to the unit: the 20th root of max(x, 1/x), raised   *)
(* to the |e|-th power, with a flag telling whether the result is that     *)
(* number or its inverse.  Math.pow(x, 0) and Math.pow(1, y) are exactly 1.*)
(***************************************************************************)
PowScale == 10 * 10 * 10 * 10
PowCap == 10 * PowScale * PowScale

\* floor(p * q / PowScale), cut at PowCap, without leaving 32 bits
FixedTimes(p, q) ==
  LET ph == p \div PowScale
      pl == p % PowScale
      qh == q \div PowScale
      ql == q % PowScale
  IN  IF ph * qh >= PowCap \div PowScale THEN PowCap
      ELSE MathMin(ph * qh * PowScale + ph * ql + pl * qh + (pl * ql) \div PowScale, PowCap)

\* (r / PowScale)^n by repeated squaring
RECURSIVE FixedPower(_, _)
FixedPower(r, n) ==
  IF n = 0 THEN PowScale
  ELSE LET h == FixedPower(r, n \div 2)
           sq == FixedTimes(h, h)
       IN  IF n % 2 = 0 THEN sq ELSE FixedTimes(sq, r)

\* the largest r in lo .. hi - 1 with (r / PowScale)^20 <= b / PowScale
RECURSIVE Root20(_, _, _)
Root20(b, lo, hi) ==
  IF hi - lo <= 1 THEN lo
  ELSE LET mid == (lo + hi) \div 2
       IN  IF FixedPower(mid, 20) <= b THEN Root20(b, mid, hi) ELSE Root20(b, lo, mid)

\* x^(e/20) for x = num / den >= 1 and e >= 0
PowAboveOne(num, den, e) ==
  LET b == IF num \div den >= PowCap \div PowScale THEN PowCap
           ELSE (num * PowScale) \div den
  IN  FixedPower(Root20(b, PowScale, 2 * PowScale), e)

MathPow(num, den, e) ==
  IF e = 0 \/ num = den THEN [inverse |-> FALSE, y |-> PowScale]
  ELSE LET a == IF e < 0 THEN 0 - e ELSE e
       IN  [inverse |-> (num > den) # (e > 0),
            y |-> IF num > den THEN PowAboveOne(num, den, a) ELSE PowAboveOne(den, num, a)]

\* q * pw for a usage q and a power pw, cut above MAX_USAGE
TimesPow(q, pw) ==
  IF pw.inverse THEN (q * PowScale) \div pw.y
  ELSE IF pw.y > (PowScale * (MAX_USAGE + 1)) \div q THEN MAX_USAGE + 1
  ELSE (q * pw.y) \div PowScale

\* Math.pow(perceivedPrice / referencePrice, e / 20) for e # 0 and prices of
\* which one at least is NaN or +Infinity: the ratio is NaN, +Infinity or 0
PowNonFinite(perceivedPrice, referencePrice, e) ==
  IF perceivedPrice = NaN \/ referencePrice = NaN THEN NaN
  ELSE IF ~IsFinite(perceivedPrice) /\ ~IsFinite(referencePrice) THEN NaN
  ELSE IF ~IsFinite(perceivedPrice) THEN (IF e < 0 THEN 0 ELSE POSITIVE_INFINITY)
  ELSE (IF e < 0 THEN POSITIVE_INFINITY ELSE 0)

\* mutant of NextUsage: the exponent taken as -1 whatever the elasticity
NextUsageNoExponent(baselineUsageClamped, perceivedPrice, referencePrice, elasticity) ==
  clampUsage(TimesPow(baselineUsageClamped,
                      MathPow(perceivedPrice, referencePrice, 0 - 20)))

\* clampUsage(baselineUsageClamped * Math.pow(perceivedPrice / referencePrice, elasticity))
NextUsage(baselineUsageClamped, perceivedPrice, referencePrice, elasticity) ==
  clampUsage(
    IF IsFinite(perceivedPrice) /\ IsFinite(referencePrice)
    THEN TimesPow(baselineUsageClamped, MathPow(perceivedPrice, referencePrice, elasticity))
    ELSE IF elasticity = 0 THEN baselineUsageClamped
    ELSE Times(baselineUsageClamped, PowNonFinite(perceivedPrice, referencePrice, elasticity)))

\* mutant of Converged: the tolerance taken as 0.5
ConvergedLoosely(nextUsage, usage) ==
  nextUsage # NaN /\ usage # NaN /\ MathAbs(nextUsage - usage) * 2 < kgal

\* Math.abs(nextUsage - usage) < 0.0005
Converged(nextUsage, usage) ==
  nextUsage # NaN /\ usage # NaN /\ MathAbs(nextUsage - usage) * 2000 < kgal

\* the loop of solveUsage from iteration i on: the guesses it goes through,
\* the last one being the usage it leaves the loop with.  FixedPoint
\* computes the next usage of an iteration, FixedPointStep is the rest of
\* the iteration.
RECURSIVE FixedPoint(_, _, _, _, _, _, _)
RECURSIVE FixedPointStep(_, _, _, _, _, _, _, _)
FixedPointStep(i, guesses, nextUsage, elasticity, ts, q0, p0, fee) ==
  IF Converged(nextUsage, guesses[Len(guesses)])
  THEN Append(guesses, nextUsage)
  ELSE FixedPoint(i + 1, Append(guesses, nextUsage), elasticity, ts, q0, p0, fee)

FixedPoint(i, guesses, elasticity, ts, q0, p0, fee) ==
  IF i >= FIXED_POINT_ITERATIONS THEN guesses
  ELSE FixedPointStep(
         i, guesses,
         NextUsage(q0,
                   MathMax(MIN_PRICE,
                           computePerceivedPrice(guesses[Len(guesses)], ts, fee.baseFee,
                                                 DEFAULT_ALPHA, fee.billSalience)),
                   p0, elasticity),
         elasticity, ts, q0, p0, fee)

\* what solveUsage returns, given the guesses of its loop
Solution(guesses, ts, baseFee, billSalience) ==
  LET usage == guesses[Len(guesses)]
  IN  [usage |-> usage,
       marginalPrice |-> computeMarginalPrice(usage, ts),
       averagePrice |-> computeAveragePrice(usage, ts),
       perceivedPrice |-> computePerceivedPrice(usage, ts, baseFee, DEFAULT_ALPHA, billSalience),
       guesses |-> guesses]

solveUsage(elasticity, ts, baselineUsage, baselinePrice, baseFee, billSalience) ==
  Solution(FixedPoint(0, <<clampUsage(baselineUsage)>>, elasticity, ts,
                      clampUsage(baselineUsage), MathMax(MIN_PRICE, baselinePrice),
                      [baseFee |-> baseFee, billSalience |-> billSalience]),
           ts, baseFee, billSalience)

(***************************************************************************)
(* The tier lists a caller can pass: every list of up to MaxTiers tiers    *)
(* with bounds on the 4-decimal grid, then at most one field of one tier   *)
(* moved off it.                                                           *)
(***************************************************************************)
Idle == <<>>

\* one 4-decimal step of volume, one 6-decimal step of price
VolumeStep == kgal \div 10000
PriceStep == dollar \div 1000000

\* $3.50, $4.25, $5.00, ... : the price of the i-th tier of the default schedule
DefaultPrice(i) == (350 + 75 * (i - 1)) * (dollar \div 100)

GridLists ==
  UNION { [1 .. n -> [lower : {k * VolumeStep : k \in 0 .. MaxStep},
                      upper : {null} \cup {k * VolumeStep : k \in 1 .. MaxStep}]]
          : n \in 0 .. MaxTiers }

Priced(g) == [i \in 1 .. Len(g) |-> Tier(g[i].lower, g[i].upper, DefaultPrice(i))]

\* a raw field moved off the grid value v
OffGrid(v, how) ==
  CASE how = "NaN" -> NaN
    [] how = "+Infinity" -> POSITIVE_INFINITY
    [] how = "-Infinity" -> NEGATIVE_INFINITY
    [] how = "negative" -> 0 - VolumeStep
    [] how = "+1e-6" -> IF v = null THEN v ELSE v + kgal \div 1000000
    [] how = "+2e-6" -> IF v = null THEN v ELSE v + 2 * (kgal \div 1000000)
    [] how = "-1e-6" -> IF v = null THEN v ELSE v - kgal \div 1000000
    [] how = "+half step" -> IF v = null THEN v ELSE v + VolumeStep \div 2
    [] how = "-price" -> 0 - v
    [] how = "+half cent step" -> v + PriceStep \div 2
    [] OTHER -> v

OffVolume == {"NaN", "+Infinity", "-Infinity", "negative", "+1e-6", "+2e-6", "-1e-6", "+half step"}
OffPrice == {"NaN", "-price", "+half cent step"}

RawTierList(g, i, field, how) ==
  LET b == Priced(g) IN
  IF i = 0 \/ i > Len(b) THEN b
  ELSE CASE field = "lower" -> [b EXCEPT ![i].lower = OffGrid(b[i].lower, how)]
         [] field = "upper" -> [b EXCEPT ![i].upper = OffGrid(b[i].upper, how)]
         [] OTHER -> [b EXCEPT ![i].price = OffGrid(b[i].price, how)]

(***************************************************************************)
(* SpecTiers: normalizeTiers and validateTiers, called as the simulator    *)
(* and calculateDemand call them (validateTiers on what normalizeTiers     *)
(* returned) and validateTiers called on the caller's list directly.       *)
(***************************************************************************)
InitTiers ==
  /\ kgal = 1000000
  /\ dollar = 2000000
  /\ pc = "start"
  /\ \E g \in GridLists, i \in 0 .. MaxTiers :
        \/ \E how \in OffVolume : tiers = RawTierList(g, i, "lower", how)
        \/ \E how \in OffVolume : tiers = RawTierList(g, i, "upper", how)
        \/ \E how \in OffPrice : tiers = RawTierList(g, i, "price", how)
  /\ normalizedTiers = Idle
  /\ heap = Idle
  /\ state = Idle
  /\ validation = Idle
  /\ inputs = Idle
  /\ result = Idle

Normalize ==
  /\ pc = "start"
  /\ normalizedTiers' = normalizeTiers(tiers)
  /\ pc' = "normalized"
  /\ UNCHANGED <<heap, state, kgal, dollar, tiers, validation, inputs, result>>

ValidateNormalized ==
  /\ pc = "normalized"
  /\ validation' = validateTiers(normalizedTiers)
  /\ pc' = "validated"
  /\ UNCHANGED <<heap, state, kgal, dollar, tiers, normalizedTiers, inputs, result>>

ValidateRaw ==
  /\ pc = "start"
  /\ validation' = validateTiers(tiers)
  /\ pc' = "validatedRaw"
  /\ UNCHANGED <<heap, state, kgal, dollar, tiers, normalizedTiers, inputs, result>>

NextTiers == Normalize \/ ValidateNormalized \/ ValidateRaw

SpecTiers == InitTiers /\ [][NextTiers]_vars

(***************************************************************************)
(* Tier Set invariants (i)-(iv) of the data model, stated on their own.    *)
(***************************************************************************)
Tolerance == kgal \div 1000000

Distance(a, b) == IF a > b THEN a - b ELSE b - a

FiniteBounds(ts) ==
  \A i \in 1 .. Len(ts) :
    IsFinite(ts[i].lower) /\ (ts[i].upper = null \/ IsFinite(ts[i].upper))

SortedByLower(ts) == \A i, j \in 1 .. Len(ts) : i < j => ts[i].lower <= ts[j].lower

Contiguous(ts) ==
  /\ ts[1].lower = 0
  /\ \A i \in 2 .. Len(ts) :
       ts[i - 1].upper # null /\ Distance(ts[i].lower, ts[i - 1].upper) <= Tolerance

UpperAboveLower(ts) == \A i \in 1 .. Len(ts) : ts[i].upper # null => ts[i].upper > ts[i].lower

LastUnbounded(ts) == \A i \in 1 .. Len(ts) : (ts[i].upper = null) <=> (i = Len(ts))

TierSetInvariants(ts) ==
  /\ Len(ts) >= 1
  /\ FiniteBounds(ts)
  /\ SortedByLower(ts)
  /\ Contiguous(ts)
  /\ UpperAboveLower(ts)
  /\ LastUnbounded(ts)

\* the list validateTiers was applied to in this state
Validated == pc \in {"validated", "validatedRaw"}
ValidatedList == IF pc = "validated" THEN normalizedTiers ELSE tiers

IsFallback(ts) == Len(ts) = 1 /\ ts[1].lower = 0 /\ ts[1].upper = null

(***************************************************************************)
(* C1: validateTiers applied to normalizeTiers of any raw tier list        *)
(* returns, and the tiers it returns satisfy the four Tier Set invariants: *)
(* sorted by lower, first lower 0 and each lower equal to the previous     *)
(* upper within 1e-6, every finite upper above its lower, exactly the last *)
(* tier unbounded.                                                         *)
(***************************************************************************)
C1_NormalizedValidatedIsTierSet ==
  pc = "validated" =>
    /\ validation.isValid \in BOOLEAN
    /\ TierSetInvariants(validation.tiers)

\* an unsorted caller's list that normalizeTiers turns into a valid 3-tier set
C1_Witness ==
  /\ pc = "validated"
  /\ validation.isValid
  /\ Len(validation.tiers) = 3
  /\ ~SortedByLower(tiers)

(***************************************************************************)
(* C2: a tier list that is ascending, starts at 0, is contiguous, has      *)
(* every finite upper above its lower and only its last tier unbounded     *)
(* comes back from validateTiers as isValid = true, with no message and    *)
(* with exactly the tiers given.                                           *)
(***************************************************************************)
ExactTierSet(ts) ==
  /\ Len(ts) >= 1
  /\ FiniteBounds(ts)
  /\ SortedByLower(ts)
  /\ ts[1].lower = 0
  /\ \A i \in 2 .. Len(ts) : ts[i].lower = ts[i - 1].upper
  /\ UpperAboveLower(ts)
  /\ LastUnbounded(ts)

C2_ValidPassesUnchanged ==
  (Validated /\ ExactTierSet(ValidatedList)) =>
    validation = [tiers |-> ValidatedList, isValid |-> TRUE]

C2_Witness ==
  /\ pc = "validatedRaw"
  /\ ExactTierSet(tiers)
  /\ Len(tiers) = 3
  /\ validation.isValid

(***************************************************************************)
(* C3: a tier list with a gap or an overlap between consecutive tiers      *)
(* beyond 1e-6, a first lower that is not 0, an unbounded tier that is not *)
(* last, or a finite upper on the last tier is rejected: isValid = false,  *)
(* a non-empty message, one fallback tier from 0 with no upper.            *)
(***************************************************************************)
GapOrOverlap(ts) ==
  \E i \in 2 .. Len(ts) :
    /\ IsFinite(ts[i].lower) /\ IsFinite(ts[i - 1].upper)
    /\ Distance(ts[i].lower, ts[i - 1].upper) > Tolerance

UnboundedNotLast(ts) == \E i \in 1 .. Len(ts) - 1 : ts[i].upper = null

FiniteLast(ts) == Len(ts) >= 1 /\ IsFinite(ts[Len(ts)].upper)

RejectedWithFallback ==
  /\ validation.isValid = FALSE
  /\ "message" \in DOMAIN validation
  /\ validation.message # ""
  /\ IsFallback(validation.tiers)

\* the claim as stated (a first lower that is "not 0"), on lists of finite numbers
C3_Original ==
  (/\ Validated
   /\ Len(ValidatedList) >= 1
   /\ FiniteBounds(ValidatedList)
   /\ \/ GapOrOverlap(ValidatedList)
      \/ ValidatedList[1].lower # 0
      \/ UnboundedNotLast(ValidatedList)
      \/ FiniteLast(ValidatedList))
    => RejectedWithFallback

\* amended: bounds that are finite numbers, and the first lower more than
\* 1e-6 away from 0
C3_DefectiveRejected ==
  (/\ Validated
   /\ Len(ValidatedList) >= 1
   /\ FiniteBounds(ValidatedList)
   /\ \/ GapOrOverlap(ValidatedList)
      \/ Distance(ValidatedList[1].lower, 0) > Tolerance
      \/ UnboundedNotLast(ValidatedList)
      \/ FiniteLast(ValidatedList))
    => RejectedWithFallback

\* a caller's list whose only defect is an overlap of 2e-6
C3_Witness ==
  /\ pc = "validatedRaw"
  /\ Len(tiers) = 3
  /\ FiniteBounds(tiers)
  /\ GapOrOverlap(tiers)
  /\ tiers[1].lower = 0
  /\ ~UnboundedNotLast(tiers)
  /\ ~FiniteLast(tiers)
  /\ validation.message = MsgContiguous

(***************************************************************************)
(* C25: when a tier list violates more than one invariant, the message of  *)
(* validateTiers is the one of the first violated invariant in the order   *)
(* (i) sorted, (ii) contiguous, (iii) upper exceeds lower, (iv) last tier  *)
(* unbounded, each taken over the whole list.                              *)
(***************************************************************************)
\* tier i starts where the previous one ends (at 0 for the first), within 1e-6
StartsAtPrevious(ts, i) ==
  IF i = 1 THEN Distance(ts[1].lower, 0) <= Tolerance
  ELSE ts[i - 1].upper # null /\ Distance(ts[i].lower, ts[i - 1].upper) <= Tolerance

UpperExceedsLower(ts, i) == ts[i].upper = null \/ ts[i].upper > ts[i].lower

\* the message by invariant; a list out of order has no message of its own
\* and is counted with the gaps and overlaps
MessageByInvariant(ts) ==
  IF ~SortedByLower(ts) \/ \E i \in 1 .. Len(ts) : ~StartsAtPrevious(ts, i)
  THEN MsgContiguous
  ELSE IF \E i \in 1 .. Len(ts) : ~UpperExceedsLower(ts, i) THEN MsgUpper
  ELSE MsgFinal

Failing(ts) == {i \in 1 .. Len(ts) : ~StartsAtPrevious(ts, i) \/ ~UpperExceedsLower(ts, i)}

FirstFailing(ts) == CHOOSE i \in Failing(ts) : \A j \in Failing(ts) : i <= j

MessageByTier(ts) ==
  IF Failing(ts) = {} THEN MsgFinal
  ELSE IF ~StartsAtPrevious(ts, FirstFailing(ts)) THEN MsgContiguous
  ELSE MsgUpper

RECURSIVE FirstOffender(_, _, _)
FirstOffender(ts, i, expectedLower) ==
  IF i > Len(ts) THEN Len(ts)
  ELSE IF BeyondTolerance(Sub(ts[i].lower, expectedLower)) THEN i
  ELSE IF ts[i].upper # null /\ Le(ts[i].upper, ts[i].lower) THEN i
  ELSE FirstOffender(ts, i + 1,
                     IF ts[i].upper = null THEN POSITIVE_INFINITY ELSE ts[i].upper)

\* the claim as stated
C4_Original ==
  (Validated /\ ~validation.isValid) =>
    validation.tiers[1].price =
      IF ValidatedList = <<>> THEN 0
      ELSE ValidatedList[FirstOffender(ValidatedList, 1, 0)].price

\* amended: priced at the first tier of the list validateTiers was given
C4_FallbackPricedAtFirstTier ==
  (Validated /\ ~validation.isValid) =>
    /\ IsFallback(validation.tiers)
    /\ validation.tiers[1].price =
         IF ValidatedList = <<>> THEN 0 ELSE ValidatedList[1].price

\* a rejection at the third tier, whose price differs from the first tier's
C4_Witness ==
  /\ pc = "validatedRaw"
  /\ ~validation.isValid
  /\ Len(tiers) = 3
  /\ FirstOffender(tiers, 1, 0) = 3
  /\ tiers[3].price # tiers[1].price
  /\ validation.tiers[1].price = tiers[1].price

(***************************************************************************)
(* SpecBilling: the billing calculator on valid Tier Sets.  Volumes are in *)
(* whole kgal and prices in cents; the Tier Sets are every choice of up to *)
(* MaxTiers - 1 break points among 2, 5 and 10 kgal with every choice of   *)
(* prices among $0, $3.50, $4.25 and $5.00 (rising, flat and declining     *)
(* blocks).                                                                *)
(***************************************************************************)
MaxUsage == 13      \* usages range over 0 .. MaxUsage kgal

BreakPoints == {2, 5, 10}
BlockPrices == {0, 350, 425, 500}

Increasing(b) == \A i, j \in 1 .. Len(b) : i < j => b[i] < b[j]

TierSet(breaks, prices) ==
  [i \in 1 .. Len(prices) |->
     Tier(IF i = 1 THEN 0 ELSE breaks[i - 1] * kgal,
          IF i = Len(prices) THEN null ELSE breaks[i] * kgal,
          prices[i] * (dollar \div 100))]

TierSetsPriced(prices) ==
  UNION { { TierSet(b, p) : b \in {x \in [1 .. n - 1 -> BreakPoints] : Increasing(x)},
                            p \in [1 .. n -> prices] }
          : n \in 1 .. MaxTiers }

ValidTierSets == TierSetsPriced(BlockPrices)

\* tiers [0-5 @ $3.50, 5-10 @ $4.25, 10-inf @ $5.00]
ExampleTiers == TierSet(<<5, 10>>, <<350, 425, 500>>)

Bill(u, ts) ==
  [marginalPrice |-> computeMarginalPrice(u, ts),
   volumetricCharge |-> computeVolumetricCharge(u, ts),
   averagePrice |-> computeAveragePrice(u, ts)]

InitBilling ==
  /\ kgal = 1
  /\ dollar = 100
  /\ pc = "start"
  /\ tiers \in ValidTierSets
  /\ validateTiers(normalizeTiers(tiers)) = [tiers |-> tiers, isValid |-> TRUE]
  /\ normalizedTiers = Idle
  /\ heap = Idle
  /\ state = Idle
  /\ validation = Idle
  /\ inputs \in [usage : {u * kgal : u \in 0 .. MaxUsage},
                 usage2 : {u * kgal : u \in 0 .. MaxUsage}]
  /\ result = <<>>

\* the billing functions called at the first usage
BillUsage ==
  /\ pc = "start"
  /\ result' = <<Bill(inputs.usage, tiers)>>
  /\ pc' = "billed"
  /\ UNCHANGED <<heap, state, kgal, dollar, tiers, normalizedTiers, validation, inputs>>

\* and called again, at the second usage
BillUsage2 ==
  /\ pc = "billed"
  /\ result' = Append(result, Bill(inputs.usage2, tiers))
  /\ pc' = "billed2"
  /\ UNCHANGED <<heap, state, kgal, dollar, tiers, normalizedTiers, validation, inputs>>

NextBilling == BillUsage \/ BillUsage2

SpecBilling == InitBilling /\ [][NextBilling]_vars

(***************************************************************************)
(* C5: for a valid Tier Set and a usage >= 0, computeVolumetricCharge is   *)
(* the sum over all tiers of price * max(0, min(usage, upper) - lower);    *)
(* usage 12 against [0-5 @ 3.50, 5-10 @ 4.25, 10-inf @ 5.00] gives 48.75.  *)
(***************************************************************************)
RECURSIVE ReferenceCharge(_, _, _)
ReferenceCharge(u, ts, i) ==
  IF i > Len(ts) THEN 0
  ELSE LET top == IF ts[i].upper = null \/ u < ts[i].upper THEN u ELSE ts[i].upper
           width == IF top > ts[i].lower THEN top - ts[i].lower ELSE 0
       IN  ts[i].price * width + ReferenceCharge(u, ts, i + 1)

C5_ChargeIsReferenceSum ==
  pc \in {"billed", "billed2"} =>
    /\ result[1].volumetricCharge = ReferenceCharge(inputs.usage, tiers, 1)
    /\ (tiers = ExampleTiers /\ inputs.usage = 12 * kgal) =>
         100 * result[1].volumetricCharge = 4875 * kgal * dollar

C5_Witness ==
  /\ pc = "billed"
  /\ tiers = ExampleTiers
  /\ inputs.usage = 12 * kgal
  /\ 100 * result[1].volumetricCharge = 4875 * kgal * dollar

(***************************************************************************)
(* C6: on a valid Tier Set the charge never decreases when usage grows, a  *)
(* usage step of d changes it by at most d times the highest tier price,   *)
(* and at a usage equal to a tier's upper bound the charge is the same     *)
(* computed as the end of that tier or as the start of the next.           *)
(***************************************************************************)
RECURSIVE HighestPrice(_)
HighestPrice(ts) ==
  IF ts = <<>> THEN 0
  ELSE LET rest == HighestPrice(Tail(ts))
       IN  IF ts[1].price > rest THEN ts[1].price ELSE rest

\* the full charge of tiers 1 .. k
RECURSIVE FullTiers(_, _)
FullTiers(ts, k) ==
  IF k = 0 THEN 0
  ELSE FullTiers(ts, k - 1) + ts[k].price * (ts[k].upper - ts[k].lower)

C6_ChargeMonotoneContinuous ==
  pc = "billed2" =>
    LET u1 == inputs.usage
        u2 == inputs.usage2
        c1 == result[1].volumetricCharge
        c2 == result[2].volumetricCharge
    IN  /\ u1 <= u2 => /\ c1 <= c2
                       /\ c2 - c1 <= (u2 - u1) * HighestPrice(tiers)
        /\ \A k \in 1 .. Len(tiers) - 1 :
             u1 = tiers[k].upper =>
               /\ c1 = FullTiers(tiers, k)
               /\ c1 = FullTiers(tiers, k) + tiers[k + 1].price * (u1 - tiers[k + 1].lower)

\* a step across the 5 kgal boundary of a three-tier set with declining prices
C6_Witness ==
  /\ pc = "billed2"
  /\ Len(tiers) = 3
  /\ tiers[1].price > tiers[2].price
  /\ inputs.usage = tiers[1].upper
  /\ inputs.usage2 = inputs.usage + kgal
  /\ result[2].volumetricCharge - result[1].volumetricCharge = tiers[2].price * kgal

(***************************************************************************)
(* C7: on a valid Tier Set, computeMarginalPrice is the price of the one   *)
(* tier whose interval [lower, upper) holds the usage: the next tier's     *)
(* price at a usage equal to an upper bound, the last tier's price at or   *)
(* above every finite upper.                                               *)
(***************************************************************************)
Holds(tier, u) == tier.lower <= u /\ (tier.upper = null \/ u < tier.upper)

C7_MarginalIsHalfOpenTier ==
  pc \in {"billed", "billed2"} =>
    LET u == inputs.usage
        holding == {i \in 1 .. Len(tiers) : Holds(tiers[i], u)}
    IN  /\ Cardinality(holding) = 1
        /\ \A i \in holding : result[1].marginalPrice = tiers[i].price
        /\ \A k \in 1 .. Len(tiers) - 1 :
             u = tiers[k].upper => result[1].marginalPrice = tiers[k + 1].price
        /\ (\A k \in 1 .. Len(tiers) - 1 : u >= tiers[k].upper) =>
             result[1].marginalPrice = tiers[Len(tiers)].price

\* usage exactly at the first break of a three-tier set with distinct prices
C7_Witness ==
  /\ pc = "billed"
  /\ Len(tiers) = 3
  /\ inputs.usage = tiers[1].upper
  /\ tiers[1].price # tiers[2].price
  /\ result[1].marginalPrice = tiers[2].price

(***************************************************************************)
(* SpecSolver: solveUsage on a valid Tier Set, then on the same Tier Set   *)
(* with the price of one tier raised by $1, the baseline held fixed.       *)
(* Volumes are in thousandths of a kgal and prices in thousandths of a     *)
(* dollar.                                                                 *)
(***************************************************************************)
SolverElasticities == {0, -3, -8, 4}                 \* 0, -0.15, -0.40, +0.20
SolverBaselineUsages == {kgal \div 20, 7 * kgal, 100 * kgal}
SolverBaselinePrices == {0, (416 * dollar) \div 100}
SolverBaseFees == {0, 25 * dollar}
SolverSaliences == {0, DEFAULT_BILL_SALIENCE}
SolverPrices == {100, 425, 1000}                     \* $1.00, $4.25, $10.00

RaisePrice(ts, k) == IF k > Len(ts) THEN ts ELSE [ts EXCEPT ![k].price = @ + dollar]

InitSolver ==
  /\ kgal = 1000
  /\ dollar = 1000
  /\ pc = "start"
  /\ tiers \in TierSetsPriced(SolverPrices)
  /\ normalizedTiers = Idle
  /\ heap = Idle
  /\ state = Idle
  /\ validation = Idle
  /\ inputs \in [elasticity : SolverElasticities,
                 baselineUsage : SolverBaselineUsages,
                 baselinePrice : SolverBaselinePrices,
                 baseFee : SolverBaseFees,
                 billSalience : SolverSaliences,
                 raised : {0}]
  /\ result = <<>>

Solve(ts) ==
  solveUsage(inputs.elasticity, ts, inputs.baselineUsage, inputs.baselinePrice,
             inputs.baseFee, inputs.billSalience)

SolveUsage ==
  /\ pc = "start"
  /\ result' = <<Solve(tiers)>>
  /\ pc' = "solved"
  /\ UNCHANGED <<heap, state, kgal, dollar, tiers, normalizedTiers, validation, inputs>>

SolveUsageRaised ==
  /\ pc = "solved"
  /\ \E k \in 1 .. Len(tiers) :
       /\ inputs' = [inputs EXCEPT !.raised = k]
       /\ result' = Append(result, Solve(RaisePrice(tiers, k)))
  /\ pc' = "solved2"
  /\ UNCHANGED <<heap, state, kgal, dollar, tiers, normalizedTiers, validation>>

NextSolver == SolveUsage \/ SolveUsageRaised

SpecSolver == InitSolver /\ [][NextSolver]_vars

(***************************************************************************)
(* C8: with elasticity 0, solveUsage returns the baseline usage it was     *)
(* given, whatever the tiers, baseline price, base fee and salience.       *)
(***************************************************************************)
\* the claim as stated
C8_Original ==
  (pc \in {"solved", "solved2"} /\ inputs.elasticity = 0) =>
    result[1].usage = inputs.baselineUsage

\* amended: the baseline usage clamped to [MIN_USAGE, MAX_USAGE]
C8_ZeroElasticityReturnsClampedBaseline ==
  (pc \in {"solved", "solved2"} /\ inputs.elasticity = 0) =>
    /\ result[1].usage = clampUsage(inputs.baselineUsage)
    /\ (MIN_USAGE <= inputs.baselineUsage /\ inputs.baselineUsage <= MAX_USAGE) =>
         result[1].usage = inputs.baselineUsage

\* elasticity 0 where the perceived price is far from the reference price
C8_Witness ==
  /\ pc = "solved"
  /\ inputs.elasticity = 0
  /\ inputs.baselineUsage = 7 * kgal
  /\ result[1].usage = 7 * kgal
  /\ result[1].perceivedPrice > 2 * MathMax(MIN_PRICE, inputs.baselinePrice)

(***************************************************************************)
(* C9: for elasticity < 0 and a fixed baseline, base fee and salience,     *)
(* raising the price of one tier of a valid Tier Set does not raise the    *)
(* usage solveUsage returns.                                               *)
(***************************************************************************)
C9_RaisedPriceNeverRaisesUsage ==
  (pc = "solved2" /\ inputs.elasticity < 0) => result[2].usage <= result[1].usage

(***************************************************************************)
(* C23: for finite inputs, every iterate of solveUsage and the usage it    *)
(* returns lie in [MIN_USAGE, MAX_USAGE], also when the baseline usage     *)
(* supplied lies outside that range.                                       *)
(***************************************************************************)
InRange(usage) == IsFinite(usage) /\ MIN_USAGE <= usage /\ usage <= MAX_USAGE

C23_IteratesInRange ==
  pc \in {"solved", "solved2"} =>
    \A r \in 1 .. Len(result) :
      /\ \A i \in 1 .. Len(result[r].guesses) : InRange(result[r].guesses[i])
      /\ InRange(result[r].usage)

\* a baseline usage above MAX_USAGE, and a loop that moved off the bound
C23_Witness ==
  /\ pc = "solved"
  /\ inputs.baselineUsage > MAX_USAGE
  /\ Len(result[1].guesses) >= 3
  /\ result[1].guesses[1] = MAX_USAGE
  /\ result[1].usage < MAX_USAGE
  /\ result[1].usage > MIN_USAGE

(***************************************************************************)
(* C24: solveUsage makes at most FIXED_POINT_ITERATIONS (12) fixed-point   *)
(* steps; it stops earlier exactly when two successive guesses differ by   *)
(* less than 0.0005; when the budget runs out without convergence it       *)
(* returns the last guess.                                                 *)
(***************************************************************************)
\* |a - b| < 0.0005
Close(a, b) == (IF a > b THEN a - b ELSE b - a) * 2000 < kgal

StepsOf(r) == Len(r.guesses) - 1

C24_BudgetedSteps ==
  pc \in {"solved", "solved2"} =>
    \A r \in 1 .. Len(result) :
      /\ StepsOf(result[r]) >= 1
      /\ StepsOf(result[r]) <= 12
      /\ \A i \in 1 .. StepsOf(result[r]) - 1 :
           ~Close(result[r].guesses[i], result[r].guesses[i + 1])
      /\ StepsOf(result[r]) < 12 =>
           Close(result[r].guesses[StepsOf(result[r])], result[r].guesses[StepsOf(result[r]) + 1])
      /\ result[r].usage = result[r].guesses[StepsOf(result[r]) + 1]

\* the budget ran out on guesses that never came within the tolerance
C24_Witness ==
  /\ pc = "solved"
  /\ StepsOf(result[1]) = 12
  /\ ~Close(result[1].guesses[12], result[1].guesses[13])
  /\ result[1].usage = result[1].guesses[13]

(***************************************************************************)
(* calculateDemand.  An absent billSalience is null, an absent baseline a  *)
(* record of nulls (baseline?.usage is then undefined).  Money per         *)
(* connection is counted in 1/(kgal * dollar), like the volumetric charge; *)
(* usageMG is counted in 1/kgal of a million gallons, the division by 1000 *)
(* being exact for the connection counts drawn here.                       *)
(***************************************************************************)
\* value || 0
OrZero(value) == IF value = NaN \/ value = null \/ value = 0 THEN 0 ELSE value

\* mutant of OrElse: the fallback taken whatever the value
OrElseFallback(value, fallback) == fallback

\* value ?? fallback
OrElse(value, fallback) == IF value = null THEN fallback ELSE value

DEFAULT_ELASTICITY == 0 - 4                          \* -0.2

\* validationMessage: undefined
NoMessage == "undefined"

\* the source writes the minus signs of this message as U+2212
WarnSign == "Elasticity should be negative (e.g., -0.10 to -0.30)."
WarnMin == "Usage settled at the minimum bound. Check elasticity or price inputs."
WarnMax == "Usage reached the maximum bound. Prices may be too low for this elasticity."

\* mutant of billPerConnection: the base fee left out of the bill
billPerConnectionNoFee(baseFee, volumetricBillPerConnection) ==
  volumetricBillPerConnection

\* baseFee + volumetricBillPerConnection
billPerConnection(baseFee, volumetricBillPerConnection) ==
  Plus(Times(baseFee, kgal), volumetricBillPerConnection)

\* mutant of Warnings: the bound warnings raised only strictly beyond the bounds
WarningsStrict(elasticity, usage) ==
  (IF elasticity >= 0 THEN <<WarnSign>> ELSE <<>>)
  \o (IF usage = NaN THEN <<>>
      ELSE IF usage < MIN_USAGE THEN <<WarnMin>>
      ELSE IF usage > MAX_USAGE THEN <<WarnMax>>
      ELSE <<>>)

\* the warnings pushed, in order; 1e-3 kgal is kgal / 1000
Warnings(elasticity, usage) ==
  (IF elasticity >= 0 THEN <<WarnSign>> ELSE <<>>)
  \o (IF usage = NaN THEN <<>>
      ELSE IF 1000 * usage <= 1000 * MIN_USAGE + kgal THEN <<WarnMin>>
      ELSE IF 1000 * usage >= 1000 * MAX_USAGE - kgal THEN <<WarnMax>>
      ELSE <<>>)

\* the result of calculateDemand, given the coerced inputs, the validation,
\* the solution and the volumetric bill at the solved usage
DemandResult(valid, elasticity, baseFee, connections, usageSolution, volumetricBillPerConnection) ==
  LET bill == billPerConnection(baseFee, volumetricBillPerConnection)
      total == Times(connections, usageSolution.usage)
  IN  [usageMG |-> IF IsFinite(total) THEN total \div 1000 ELSE total,
       revenue |-> Times(bill, connections),
       volumetricBillPerConnection |-> volumetricBillPerConnection,
       trace |-> [perConnectionUsage |-> usageSolution.usage,
                  usageP5 |-> usageSolution.usage,
                  usageP95 |-> usageSolution.usage,
                  marginalPrice |-> usageSolution.marginalPrice,
                  averagePrice |-> usageSolution.averagePrice,
                  perceivedPrice |-> usageSolution.perceivedPrice,
                  billPerConnection |-> bill],
       warnings |-> Warnings(elasticity, usageSolution.usage),
       validationMessage |-> IF valid.isValid THEN NoMessage ELSE valid.message,
       tiersUsed |-> valid.tiers]

\* calculateDemand from the solution on
DemandSolved(valid, elasticity, baseFee, connections, usageSolution) ==
  DemandResult(valid, elasticity, baseFee, connections, usageSolution,
               computeVolumetricCharge(usageSolution.usage, valid.tiers))

\* calculateDemand from the validation of the normalized tiers on
DemandValidated(in, valid) ==
  LET elasticity == IF IsFinite(in.elasticity) THEN in.elasticity ELSE DEFAULT_ELASTICITY
      baseFee == MathMax(0, OrZero(in.baseFee))
      connections == MathMax(0, OrZero(in.connections))
      billSalience == OrElse(in.billSalience, DEFAULT_BILL_SALIENCE)
      baselineUsage == clampUsage(OrElse(in.baseline.usage, BASELINE_USAGE))
  IN  DemandSolved(
        valid, elasticity, baseFee, connections,
        solveUsage(elasticity, valid.tiers, baselineUsage,
                   MathMax(MIN_PRICE,
                           OrElse(in.baseline.perceivedPrice,
                                  computePerceivedPrice(baselineUsage, valid.tiers, baseFee,
                                                        DEFAULT_ALPHA, billSalience))),
                   baseFee, billSalience))

calculateDemand(in) == DemandValidated(in, validateTiers(normalizeTiers(in.tiers)))

(***************************************************************************)
(* SpecDemand: calculateDemand on one scenario.  Volumes are in tenths of  *)
(* a kgal and prices in cents; connections come in thousands.              *)
(***************************************************************************)
DemandTierSets ==
  { TierSet(<<>>, <<350>>), TierSet(<<5, 10>>, <<350, 425, 500>>), TierSet(<<2>>, <<500, 350>>) }

\* lists validateTiers rejects or normalizeTiers reorders or repairs
DefectiveTierLists ==
  { <<>>,
    <<Tier(NaN, null, 0 - 350 * (dollar \div 100))>>,
    <<Tier(0, 5 * kgal, 350 * (dollar \div 100))>>,
    <<Tier(0, 5 * kgal, 350 * (dollar \div 100)), Tier(6 * kgal, null, 500 * (dollar \div 100))>>,
    <<Tier(2 * kgal, null, 425 * (dollar \div 100))>>,
    <<Tier(5 * kgal, null, 500 * (dollar \div 100)), Tier(0, 5 * kgal, 350 * (dollar \div 100))>> }

DemandConnections == {NaN, POSITIVE_INFINITY, NEGATIVE_INFINITY, 0 - 1000, 0, 3000}
DemandElasticities == {NaN, POSITIVE_INFINITY, NEGATIVE_INFINITY, 0, 2, 0 - 8}
DemandBaseFees == {NaN, POSITIVE_INFINITY, NEGATIVE_INFINITY, 0 - 5 * dollar, 0, 25 * dollar}
DemandSaliences == {null, 0}
DemandBaselines ==
  { [usage |-> null, perceivedPrice |-> null],
    [usage |-> 5 * kgal, perceivedPrice |-> (416 * dollar) \div 100],
    [usage |-> 100 * kgal, perceivedPrice |-> 40 * dollar],
    [usage |-> kgal \div 20, perceivedPrice |-> 0] }

\* the baseline the simulator passes when no anchor is frozen: a usage and
\* the perceived price there under the validated tiers, with the base fee
\* and the salience as they are (a null salience multiplies as 0)
AnchoredAt(u, ts, baseFee, billSalience) ==
  [usage |-> u,
   perceivedPrice |->
     computePerceivedPrice(u, validateTiers(normalizeTiers(ts)).tiers, baseFee, DEFAULT_ALPHA,
                           IF billSalience = null THEN 0 ELSE billSalience)]

InitDemand ==
  /\ kgal = 10
  /\ dollar = 100
  /\ pc = "start"
  /\ tiers \in DemandTierSets \cup DefectiveTierLists
  /\ normalizedTiers = Idle
  /\ heap = Idle
  /\ state = Idle
  /\ validation = Idle
  /\ \E f \in DemandBaseFees, s \in DemandSaliences :
       inputs \in [connections : DemandConnections,
                   elasticity : DemandElasticities,
                   baseFee : {f},
                   billSalience : {s},
                   baseline : DemandBaselines \cup {AnchoredAt(5 * kgal, tiers, f, s)}]
  /\ result = <<>>

CalculateDemand ==
  /\ pc = "start"
  /\ result' = <<calculateDemand([connections |-> inputs.connections,
                                  elasticity |-> inputs.elasticity,
                                  baseFee |-> inputs.baseFee,
                                  tiers |-> tiers,
                                  baseline |-> inputs.baseline,
                                  billSalience |-> inputs.billSalience])>>
  /\ pc' = "calculated"
  /\ UNCHANGED <<heap, state, kgal, dollar, tiers, normalizedTiers, validation, inputs>>

NextDemand == CalculateDemand

SpecDemand == InitDemand /\ [][NextDemand]_vars

(***************************************************************************)
(* C10: calculateDemand returns usageMG = connections * q / 1000 and       *)
(* revenue = connections * (baseFee + computeVolumetricCharge(q,           *)
(* tiersUsed)), q being trace.perConnectionUsage and connections, baseFee  *)
(* the inputs floored at 0 with NaN read as 0; and trace.billPerConnection *)
(* = baseFee + volumetricBillPerConnection.                                *)
(***************************************************************************)
Coerced(value) == IF value = NaN \/ value < 0 THEN 0 ELSE value

C10_DemandTotals ==
  pc = "calculated" =>
    LET r == result[1]
        q == r.trace.perConnectionUsage
        connections == Coerced(inputs.connections)
        baseFee == Coerced(inputs.baseFee)
    IN  (IsFinite(connections) /\ IsFinite(baseFee) /\ IsFinite(q)) =>
          /\ 1000 * r.usageMG = connections * q
          /\ r.revenue = connections * (baseFee * kgal + computeVolumetricCharge(q, r.tiersUsed))
          /\ r.trace.billPerConnection = baseFee * kgal + r.volumetricBillPerConnection

\* a positive fee and a rejected tier list: the totals are those of the fallback
C10_Witness ==
  /\ pc = "calculated"
  /\ inputs.connections = 3000
  /\ inputs.baseFee = 25 * dollar
  /\ result[1].validationMessage # NoMessage
  /\ result[1].tiersUsed # tiers
  /\ result[1].volumetricBillPerConnection > 0
  /\ IsFinite(result[1].trace.perConnectionUsage)
  /\ result[1].revenue = 3000 * result[1].trace.billPerConnection
  /\ result[1].usageMG = 3 * result[1].trace.perConnectionUsage

(***************************************************************************)
(* C11: the warnings of calculateDemand hold the minimum-bound warning     *)
(* exactly when the solved usage is <= MIN_USAGE + 0.001, the              *)
(* maximum-bound warning exactly when it is >= MAX_USAGE - 0.001, the      *)
(* elasticity-sign warning exactly when the elasticity used is >= 0, and   *)
(* nothing else; the figures of the result are numbers all the same.       *)
(***************************************************************************)
Warned(r, w) == \E i \in 1 .. Len(r.warnings) : r.warnings[i] = w

ElasticityUsed == IF IsFinite(inputs.elasticity) THEN inputs.elasticity ELSE DEFAULT_ELASTICITY

C12_InvalidTiersUseFallback ==
  pc = "calculated" =>
    LET r == result[1]
        q == r.trace.perConnectionUsage
        normalized == normalizeTiers(tiers)
        v == validateTiers(normalized)
        flat == r.tiersUsed[1].price
    IN  /\ (r.validationMessage # NoMessage) <=> ~v.isValid
        /\ v.isValid => r.tiersUsed = normalized
        /\ ~v.isValid =>
             /\ r.validationMessage \in {MsgEmpty, MsgContiguous, MsgUpper, MsgFinal}
             /\ IsFallback(r.tiersUsed)
             /\ flat = IF normalized = <<>> THEN 0 ELSE normalized[1].price
             /\ (IsFinite(q) /\ IsFinite(inputs.baseFee) /\ IsFinite(inputs.connections)) =>
                  /\ r.trace.marginalPrice = flat
                  /\ r.trace.averagePrice = flat
                  /\ r.volumetricBillPerConnection = q * flat
                  /\ r.trace.billPerConnection = Coerced(inputs.baseFee) * kgal + q * flat
                  /\ r.revenue = r.trace.billPerConnection * Coerced(inputs.connections)

\* a rejected two-tier list whose second tier would have priced the usage
C12_Witness ==
  /\ pc = "calculated"
  /\ Len(tiers) = 2
  /\ result[1].validationMessage = MsgContiguous
  /\ result[1].trace.marginalPrice = tiers[1].price
  /\ computeMarginalPrice(result[1].trace.perConnectionUsage, tiers) # tiers[1].price
  /\ result[1].revenue > 0

(***************************************************************************)
(* C13: whatever elasticity, base fee and connections calculateDemand is   *)
(* given (NaN, +Infinity, -Infinity and negative numbers included), the    *)
(* usageMG and the revenue it returns are finite and not negative.         *)
(***************************************************************************)
FiniteNonNegative(x) == IsFinite(x) /\ x >= 0

C13_TotalsFiniteNonNegative ==
  pc = "calculated" =>
    /\ FiniteNonNegative(result[1].usageMG)
    /\ FiniteNonNegative(result[1].revenue)

(***************************************************************************)
(* lib/montecarlo.ts: the Monte Carlo engine.  A standard-normal draw is   *)
(* counted in tenths, usageVar in hundredths, a percentile rank in         *)
(* twentieths.  ELASTICITY_STD is 0.05, one step of the elasticity grid,   *)
(* so an eps draw of a whole number moves the elasticity by that many      *)
(* steps.                                                                  *)
(***************************************************************************)
ELASTICITY_STD == 1
ELASTICITY_MIN == 0 - 8
ELASTICITY_MAX == 0 - 1

WarnNoBaseline == "Baseline has not been established yet."
WarnSomeMin == "Some customers are hitting the minimum usage bound."
WarnSomeMax == "Some customers are hitting the maximum usage bound."

\* Array.prototype.sort((a, b) => a - b) on finite numbers
RECURSIVE InsertAscending(_, _)
InsertAscending(s, x) ==
  IF s = <<>> THEN <<x>>
  ELSE IF x < s[1] THEN <<x>> \o s
  ELSE <<s[1]>> \o InsertAscending(Tail(s), x)

RECURSIVE SortAscending(_)
SortAscending(s) ==
  IF s = <<>> THEN <<>> ELSE InsertAscending(SortAscending(SubSeq(s, 1, Len(s) - 1)), s[Len(s)])

\* percentile(sortedValues, p) for p = p20 / 20; indexes are 0-based in the
\* source, 1-based here
percentile(sortedValues, p20) ==
  IF Len(sortedValues) = 0 THEN 0
  ELSE LET position20 == (Len(sortedValues) - 1) * p20
           lowerIndex == position20 \div 20
           weight20 == position20 % 20
       IN  IF weight20 = 0 THEN sortedValues[lowerIndex + 1]
           ELSE (sortedValues[lowerIndex + 1] * (20 - weight20)
                 + sortedValues[lowerIndex + 2] * weight20) \div 20

clampElasticity(value) == MathMin(MathMax(value, ELASTICITY_MIN), ELASTICITY_MAX)

\* the series of Math.exp(x) from the k-th term on, x >= 0 counted in 1/PowScale
RECURSIVE ExpSeries(_, _, _, _)
ExpSeries(x, k, term, sum) ==
  IF term = 0 THEN sum
  ELSE ExpSeries(x, k + 1, FixedTimes(term, x) \div (k + 1), sum + term)

\* Math.exp(x), x counted in 1/PowScale
MathExp(x) ==
  IF x >= 0 THEN ExpSeries(x, 0, PowScale, 0)
  ELSE (PowScale * PowScale) \div ExpSeries(0 - x, 0, PowScale, 0)

\* clampUsage(Math.exp(mu + sigma * z)) with mu = Math.log(Math.max(anchorUsage,
\* MIN_USAGE)) - 0.5 * sigma * sigma: the floored anchor times
\* exp(sigma * z - sigma * sigma / 2)
buildUsageDraws(anchorUsage, usageVar, seeds) ==
  LET sigma == MathMax(1, usageVar)
  IN  [i \in 1 .. Len(seeds) |->
         clampUsage((MathMax(anchorUsage, MIN_USAGE)
                     * MathExp(10 * sigma * seeds[i] - (sigma * sigma) \div 2)) \div PowScale)]

\* the sum a loop accumulates over a list of finite numbers
RECURSIVE SumOf(_)
SumOf(s) == IF s = <<>> THEN 0 ELSE s[1] + SumOf(Tail(s))

\* connections / sampleCount, exact for the connection counts drawn
Weight(connections, sampleCount) ==
  IF IsFinite(connections) THEN connections \div sampleCount ELSE connections

\* mutant of Scaled: the sum not weighted
ScaledUnweighted(sum, weight) == sum

\* sum * weight
Scaled(sum, weight) == Times(sum, weight)

\* the warnings pushed, in order
MonteCarloWarnings(elasticityMean, usageP5, usageP95) ==
  (IF elasticityMean >= 0 THEN <<WarnSign>> ELSE <<>>)
  \o (IF 1000 * usageP5 <= 1000 * MIN_USAGE + kgal THEN <<WarnSomeMin>> ELSE <<>>)
  \o (IF 1000 * usageP95 >= 1000 * MAX_USAGE - kgal THEN <<WarnSomeMax>> ELSE <<>>)

\* params.validationMessage is NoMessage when the caller passes undefined
\* usageSamples after the loop
UsageSamples(params, baselineUsages, sampleCount) ==
  [i \in 1 .. sampleCount |->
     solveUsage(clampElasticity(params.elasticityMean
                                + (ELASTICITY_STD * params.draws.eps[i]) \div 10),
                params.tiers, baselineUsages[i], params.anchor.perceivedPrice,
                params.baseFee, params.billSalience).usage]

\* billSamples after the loop
BillSamples(params, usageSamples) ==
  [i \in 1 .. Len(usageSamples) |->
     params.baseFee * kgal + computeVolumetricCharge(usageSamples[i], params.tiers)]

\* the result of runMonteCarloSimulation, given the sums and the sorted
\* copies of the two sample arrays
SimulationResult(params, sampleCount, usageSum, billSum, sortedUsage, sortedBills) ==
  LET weight == Weight(params.connections, sampleCount)
      total == Scaled(usageSum, weight)
      usageP5 == percentile(sortedUsage, 1)
      usageMedian == percentile(sortedUsage, 10)
      usageP95 == percentile(sortedUsage, 19)
      billMedian == percentile(sortedBills, 10)
  IN  [usageMG |-> IF IsFinite(total) THEN total \div 1000 ELSE total,
       revenue |-> Scaled(billSum, weight),
       volumetricBillPerConnection |-> MathMax(billMedian - params.baseFee * kgal, 0),
       trace |-> [perConnectionUsage |-> usageMedian,
                  usageP5 |-> usageP5,
                  usageP95 |-> usageP95,
                  marginalPrice |-> computeMarginalPrice(usageMedian, params.tiers),
                  averagePrice |-> computeAveragePrice(usageMedian, params.tiers),
                  perceivedPrice |->
                    computePerceivedPrice(usageMedian, params.tiers, params.baseFee,
                                          DEFAULT_ALPHA, params.billSalience),
                  billPerConnection |-> billMedian],
       warnings |-> MonteCarloWarnings(params.elasticityMean, usageP5, usageP95),
       validationMessage |-> params.validationMessage,
       tiersUsed |-> params.tiers]

\* runMonteCarloSimulation after the loop, given the two sample arrays
SimulationOfBills(params, usageSamples, billSamples) ==
  SimulationResult(params, Len(usageSamples), SumOf(usageSamples), SumOf(billSamples),
                   SortAscending(usageSamples), SortAscending(billSamples))

SimulationOfSamples(params, usageSamples) ==
  SimulationOfBills(params, usageSamples, BillSamples(params, usageSamples))

runMonteCarloSimulation(params) ==
  IF MathMin(Len(params.draws.q0), Len(params.draws.eps)) = 0
  THEN [usageMG |-> 0,
        revenue |-> 0,
        volumetricBillPerConnection |-> 0,
        trace |-> [perConnectionUsage |-> 0,
                   usageP5 |-> 0,
                   usageP95 |-> 0,
                   marginalPrice |-> 0,
                   averagePrice |-> 0,
                   perceivedPrice |-> 0,
                   billPerConnection |-> Times(params.baseFee, kgal)],
        warnings |-> <<WarnNoBaseline>>,
        validationMessage |-> params.validationMessage,
        tiersUsed |-> params.tiers]
  ELSE SimulationOfSamples(
         params,
         UsageSamples(params,
                      buildUsageDraws(params.anchor.usage, params.usageVar, params.draws.q0),
                      MathMin(Len(params.draws.q0), Len(params.draws.eps))))

(***************************************************************************)
(* SpecMonteCarlo: runMonteCarloSimulation on one scenario, then on the    *)
(* same scenario with twice the connections.  Volumes are in tenths of a   *)
(* kgal, prices in cents.  Connections are multiples of 6000, so that the  *)
(* weight connections / sampleCount and the division by 1000 are exact for *)
(* every sample count drawn.  The base fees drawn are finite: a non-finite *)
(* one makes the comparators of the two sorts return NaN.                  *)
(***************************************************************************)
SampleCounts == {0, 1, 2, 3}
SeedsQ0 == {0 - 10, 10}                              \* z = -1, +1
SeedsEps == {0 - 20, 10}                             \* z = -2, +1

DrawsOf(seeds) == UNION {[1 .. n -> seeds] : n \in SampleCounts}

MonteCarloConnections == {NaN, 0 - 6000, 0, 6000}
MonteCarloBaseFees == {0 - 5 * dollar, 25 * dollar}
MonteCarloMeans == {0 - 3, 1}                        \* -0.15, +0.05
MonteCarloTierSets == {TierSet(<<5, 10>>, <<350, 425, 500>>), TierSet(<<>>, <<0>>)}

InitMonteCarlo ==
  /\ kgal = 10
  /\ dollar = 100
  /\ pc = "start"
  /\ tiers \in MonteCarloTierSets
  /\ normalizedTiers = Idle
  /\ heap = Idle
  /\ state = Idle
  /\ validation = Idle
  /\ inputs \in [connections : MonteCarloConnections,
                 baseFee : MonteCarloBaseFees,
                 anchor : {[usage |-> 7 * kgal, perceivedPrice |-> (416 * dollar) \div 100]},
                 q0 : DrawsOf(SeedsQ0),
                 eps : DrawsOf(SeedsEps),
                 elasticityMean : MonteCarloMeans,
                 usageVar : {40},
                 billSalience : {DEFAULT_BILL_SALIENCE}]
  /\ result = <<>>

MonteCarloParams(connections) ==
  [connections |-> connections,
   baseFee |-> inputs.baseFee,
   tiers |-> tiers,
   anchor |-> inputs.anchor,
   draws |-> [q0 |-> inputs.q0, eps |-> inputs.eps],
   elasticityMean |-> inputs.elasticityMean,
   usageVar |-> inputs.usageVar,
   validationMessage |-> NoMessage,
   billSalience |-> inputs.billSalience]

RunMonteCarlo ==
  /\ pc = "start"
  /\ result' = <<runMonteCarloSimulation(MonteCarloParams(inputs.connections))>>
  /\ pc' = "simulated"
  /\ UNCHANGED <<heap, state, kgal, dollar, tiers, normalizedTiers, validation, inputs>>

RunMonteCarloDoubled ==
  /\ pc = "simulated"
  /\ result' = Append(result,
                      runMonteCarloSimulation(MonteCarloParams(Times(2, inputs.connections))))
  /\ pc' = "simulated2"
  /\ UNCHANGED <<heap, state, kgal, dollar, tiers, normalizedTiers, validation, inputs>>

NextMonteCarlo == RunMonteCarlo \/ RunMonteCarloDoubled

SpecMonteCarlo == InitMonteCarlo /\ [][NextMonteCarlo]_vars

(***************************************************************************)
(* C14: whatever base fee and connections runMonteCarloSimulation is given *)
(* (negative and non-finite numbers included), the usageMG and the revenue *)
(* it returns are finite and not negative.                                 *)
(***************************************************************************)
C14_MonteCarloTotalsFiniteNonNegative ==
  pc = "simulated" =>
    /\ FiniteNonNegative(result[1].usageMG)
    /\ FiniteNonNegative(result[1].revenue)

(***************************************************************************)
(* C15: of two runMonteCarloSimulation calls that differ only in           *)
(* connections, the second having twice the connections of the first, the  *)
(* second returns exactly twice the usageMG and twice the revenue, and the *)
(* same per-connection figures (median usage, P5, P95, prices, median      *)
(* bill).                                                                  *)
(***************************************************************************)
C15_DoubledConnectionsDoubleTotals ==
  (pc = "simulated2" /\ IsFinite(inputs.connections)) =>
    /\ result[2].usageMG = 2 * result[1].usageMG
    /\ result[2].revenue = 2 * result[1].revenue
    /\ result[2].trace = result[1].trace
    /\ result[2].volumetricBillPerConnection = result[1].volumetricBillPerConnection

\* three samples of different usage, 6000 connections then 12000
C15_Witness ==
  /\ pc = "simulated2"
  /\ inputs.connections = 6000
  /\ Len(tiers) = 3
  /\ Len(inputs.q0) = 3 /\ Len(inputs.eps) = 3
  /\ result[1].trace.usageP5 < result[1].trace.perConnectionUsage
  /\ result[1].trace.perConnectionUsage < result[1].trace.usageP95
  /\ result[1].usageMG > 0
  /\ result[1].revenue > 0
  /\ result[2].revenue = 2 * result[1].revenue

(***************************************************************************)
(* computeDecileImpacts.  pctOfTotal, a quotient of two deltas, is kept as *)
(* the pair of its numerator and denominator.                              *)
(***************************************************************************)
DecileNames == <<"D1", "D2", "D3", "D4", "D5", "D6", "D7", "D8", "D9", "D10">>

\* mutant of InsertIndex: the indices left in their original order
InsertIndexAppend(s, x, q0) == Append(s, x)

\* indices.sort((a, b) => q0[a] - q0[b]): stable insertion of index x into
\* the sorted list s of 1-based indices
RECURSIVE InsertIndex(_, _, _)
InsertIndex(s, x, q0) ==
  IF s = <<>> THEN <<x>>
  ELSE IF q0[x] < q0[s[1]] THEN <<x>> \o s
  ELSE <<s[1]>> \o InsertIndex(Tail(s), x, q0)

RECURSIVE SortedIndices(_, _)
SortedIndices(n, q0) ==
  IF n = 0 THEN <<>> ELSE InsertIndex(SortedIndices(n - 1, q0), n, q0)

\* Math.floor((decile * sampleCount) / 10), decile counted from 0
DecileStart(decile, sampleCount) == (decile * sampleCount) \div 10

\* mutant of DecileEnd: the last position of each decile left out
DecileEndShort(decile, sampleCount) ==
  IF ((decile + 1) * sampleCount) \div 10 > (decile * sampleCount) \div 10
  THEN ((decile + 1) * sampleCount) \div 10 - 1
  ELSE ((decile + 1) * sampleCount) \div 10

\* Math.floor(((decile + 1) * sampleCount) / 10)
DecileEnd(decile, sampleCount) == ((decile + 1) * sampleCount) \div 10

\* the sample indices of a decile: positions start .. end - 1 of the sorted
\* indices (0-based in the source)
DecileMembers(indices, decile, sampleCount) ==
  SubSeq(indices, DecileStart(decile, sampleCount) + 1, DecileEnd(decile, sampleCount))

\* the inner loop: the sum of q1 - q0 over the members
RECURSIVE DecileDelta(_, _, _)
DecileDelta(members, q0, q1) ==
  IF members = <<>> THEN 0
  ELSE q1[members[1]] - q0[members[1]] + DecileDelta(Tail(members), q0, q1)

\* connections / sampleCount / 1000, exact for the connection counts drawn
DecileWeight(connections, sampleCount) == (connections \div sampleCount) \div 1000

computeDecileImpacts(q0, q1, connections) ==
  LET sampleCount == MathMin(Len(q0), Len(q1))
  IN  IF sampleCount = 0 \/ connections = 0
      THEN [idx \in 1 .. 10 |->
              [decile |-> DecileNames[idx], deltaMG |-> 0, pctOfTotal |-> <<0, 1>>]]
      ELSE
        LET indices == SortedIndices(sampleCount, q0)
            weight == DecileWeight(connections, sampleCount)
            deltaMG == [idx \in 1 .. 10 |->
                          DecileDelta(DecileMembers(indices, idx - 1, sampleCount), q0, q1)
                          * weight]
            totalDeltaMG == SumOf(deltaMG)
            denominator == IF totalDeltaMG = 0 THEN kgal ELSE totalDeltaMG
        IN  [idx \in 1 .. 10 |->
               [decile |-> DecileNames[idx],
                deltaMG |-> deltaMG[idx],
                pctOfTotal |-> <<deltaMG[idx], denominator>>]]

(***************************************************************************)
(* SpecDeciles: computeDecileImpacts on two usage arrays.  Usages are in   *)
(* tenths of a kgal; the arrays are short patterns of several lengths      *)
(* (none, fewer than ten, ten, more than ten and not a multiple of ten),   *)
(* and connections are multiples of 420000 so that the weight is exact for *)
(* every sample count.                                                     *)
(***************************************************************************)
ArrayLengths == {0, 3, 7, 10, 12}

\* usages (a * i + b) mod m + 1 kgal, i = 1 .. n
Pattern(n, a, b, m) == [i \in 1 .. n |-> (((a * i + b) % m) + 1) * kgal]

InitDeciles ==
  /\ kgal = 10
  /\ dollar = 100
  /\ pc = "start"
  /\ tiers = <<>>
  /\ normalizedTiers = Idle
  /\ heap = Idle
  /\ state = Idle
  /\ validation = Idle
  /\ \E n0 \in ArrayLengths, n1 \in ArrayLengths, a0 \in {0, 1, 3}, b0 \in {0, 2},
        a1 \in {0, 1, 2}, b1 \in {0, 1}, c \in {0 - 420000, 0, 420000} :
       inputs = [q0 |-> Pattern(n0, a0, b0, 7),
                 q1 |-> Pattern(n1, a1, b1, 5),
                 connections |-> c]
  /\ result = <<>>

ComputeDecileImpacts ==
  /\ pc = "start"
  /\ result' = <<computeDecileImpacts(inputs.q0, inputs.q1, inputs.connections)>>
  /\ pc' = "deciles"
  /\ UNCHANGED <<heap, state, kgal, dollar, tiers, normalizedTiers, validation, inputs>>

NextDeciles == ComputeDecileImpacts

SpecDeciles == InitDeciles /\ [][NextDeciles]_vars

(***************************************************************************)
(* C16: the ten deltaMG values of computeDecileImpacts sum to the total    *)
(* usage delta, connections / S / 1000 times the sum over all S samples of *)
(* (proposal - baseline), S being the shorter length: every sample index   *)
(* is in exactly one decile, whatever S is.                                *)
(***************************************************************************)
SampleCount == IF Len(inputs.q0) < Len(inputs.q1) THEN Len(inputs.q0) ELSE Len(inputs.q1)

RECURSIVE TotalDelta(_)
TotalDelta(i) == IF i = 0 THEN 0 ELSE inputs.q1[i] - inputs.q0[i] + TotalDelta(i - 1)

\* how many deciles hold the sample index i
Holding(i) ==
  Cardinality({d \in 0 .. 9 :
                 \E k \in DecileStart(d, SampleCount) + 1 .. DecileEnd(d, SampleCount) :
                   SortedIndices(SampleCount, inputs.q0)[k] = i})

C16_DecileDeltasSumToTotal ==
  pc = "deciles" =>
    /\ Len(result[1]) = 10
    /\ SumOf([d \in 1 .. 10 |-> result[1][d].deltaMG])
         = IF SampleCount = 0 THEN 0
           ELSE DecileWeight(inputs.connections, SampleCount) * TotalDelta(SampleCount)
    /\ \A i \in 1 .. SampleCount : Holding(i) = 1

\* seven samples (fewer than ten, some deciles empty) with a non-zero total
C16_Witness ==
  /\ pc = "deciles"
  /\ SampleCount = 7
  /\ inputs.connections > 0
  /\ TotalDelta(SampleCount) # 0
  /\ \E d \in 1 .. 10 : result[1][d].deltaMG > 0
  /\ \E d \in 1 .. 10 : result[1][d].deltaMG < 0

\* the sample indices the loop of computeDecileImpacts visits for decile d
\* (counted from 0)
Group(d) == DecileMembers(SortedIndices(SampleCount, inputs.q0), d, SampleCount)

DecilesNamed ==
  /\ Len(result[1]) = 10
  /\ \A d \in 1 .. 10 : result[1][d].decile = DecileNames[d]

\* the records carry the deltas of the groups
DecilesOfGroups ==
  inputs.connections # 0 /\ SampleCount > 0 =>
    \A d \in 0 .. 9 :
      result[1][d + 1].deltaMG
        = DecileDelta(Group(d), inputs.q0, inputs.q1)
          * DecileWeight(inputs.connections, SampleCount)

\* members of an earlier decile use no more at baseline than members of a
\* later one
DecilesOrdered ==
  \A d \in 0 .. 9, e \in 0 .. 9 :
    d < e =>
      \A i \in 1 .. Len(Group(d)), j \in 1 .. Len(Group(e)) :
        inputs.q0[Group(d)[i]] <= inputs.q0[Group(e)[j]]

\* C17 as stated: ten records D1..D10, the ten groups of equal count and
\* ordered by baseline usage
C17_Original ==
  pc = "deciles" =>
    /\ DecilesNamed
    /\ DecilesOfGroups
    /\ \A d \in 0 .. 9, e \in 0 .. 9 : Len(Group(d)) = Len(Group(e))
    /\ DecilesOrdered

(***************************************************************************)
(* C17: computeDecileImpacts always returns ten records named D1..D10; the *)
(* groups behind them are consecutive runs of the samples sorted by        *)
(* baseline usage, so members of an earlier decile never use more at       *)
(* baseline than members of a later one; the group sizes differ by at most *)
(* one and are equal exactly when the sample count is a multiple of ten.   *)
(***************************************************************************)
C17_DecilesOrderedNearlyEqual ==
  pc = "deciles" =>
    /\ DecilesNamed
    /\ DecilesOfGroups
    /\ DecilesOrdered
    /\ SumOf([d \in 1 .. 10 |-> Len(Group(d - 1))]) = SampleCount
    /\ \A d \in 0 .. 9, e \in 0 .. 9 : Len(Group(d)) - Len(Group(e)) <= 1
    /\ (SampleCount % 10 = 0) <=> (\A d \in 0 .. 9, e \in 0 .. 9 : Len(Group(d)) = Len(Group(e)))

\* twelve samples of differing baseline usage: groups of one and of two
C17_Witness ==
  /\ pc = "deciles"
  /\ SampleCount = 12
  /\ inputs.connections # 0
  /\ \E d \in 0 .. 9 : Len(Group(d)) = 2
  /\ \E d \in 0 .. 9 : Len(Group(d)) = 1
  /\ \E i \in 1 .. 11 : inputs.q0[i] > inputs.q0[i + 1]
  /\ \E d \in 1 .. 10 : result[1][d].deltaMG # 0

(***************************************************************************)
(* SnapshotCompare (components/snapshot-compare.tsx).  state holds the     *)
(* three useState values, inputs the props of the current render and the   *)
(* clock, result what the last handler closed over (the history of the     *)
(* render it ran in) and the window events it dispatched.                  *)
(***************************************************************************)
MAX_SNAPSHOTS == 20

SNAPSHOT_CAPTURE_EVENT == "SNAPSHOT_CAPTURE_EVENT"

\* mutant of NewSnapshot: the two figures stored in each other's place
NewSnapshotSwapped(props) ==
  [id |-> props.now, mg |-> props.currentRevenue, revenue |-> props.currentMG,
   timestamp |-> props.now]

\* newSnapshot of handleCapture; the id is the text "snapshot-" followed by
\* Date.now(), kept as the number
NewSnapshot(props) ==
  [id |-> props.now, mg |-> props.currentMG, revenue |-> props.currentRevenue,
   timestamp |-> props.now]

\* mutant of CaptureInto: the history grows without the cap
CaptureIntoUncapped(snapshots, newSnapshot) == Append(snapshots, newSnapshot)

\* the argument of setSnapshots in handleCapture
CaptureInto(snapshots, newSnapshot) ==
  IF Len(snapshots) >= MAX_SNAPSHOTS
  THEN Tail(snapshots) \o <<newSnapshot>>
  ELSE snapshots \o <<newSnapshot>>

\* mutant of DropLast: the oldest snapshot removed instead of the newest
DropFirst(snapshots) == IF snapshots = <<>> THEN <<>> ELSE Tail(snapshots)

\* snapshots.slice(0, -1)
DropLast(snapshots) ==
  IF snapshots = <<>> THEN <<>> ELSE SubSeq(snapshots, 1, Len(snapshots) - 1)

\* snapshots.slice(-5)
LastFive(snapshots) ==
  SubSeq(snapshots, MathMax(Len(snapshots) - 5, 0) + 1, Len(snapshots))

\* chartData of a render; idx counts from 1 here, and the label is the text
\* "v" followed by the number kept
chartData(snapshots) ==
  [idx \in 1 .. Len(LastFive(snapshots)) |->
     [label |-> Len(snapshots) - 5 + (idx - 1) + 1,
      mg |-> ToFixed(LastFive(snapshots)[idx].mg, 2, kgal),
      revenue |-> ToFixed(LastFive(snapshots)[idx].revenue, 0, dollar)]]

(***************************************************************************)
(* SpecSnapshots: the Capture, Undo and Clear All handlers, and the parent *)
(* re-rendering the component with new figures as time passes.  The props  *)
(* and the clock follow a short timeline (two captures can fall in the     *)
(* same millisecond and can record the same figures); mg is in 1/kgal of   *)
(* an MG and revenue in dollars.                                           *)
(***************************************************************************)
Timeline ==
  << [now |-> 1000, currentMG |-> 70, currentRevenue |-> 55000],
     [now |-> 1000, currentMG |-> 64, currentRevenue |-> 58000],
     [now |-> 1001, currentMG |-> 64, currentRevenue |-> 58000],
     [now |-> 1002, currentMG |-> 0, currentRevenue |-> 0] >>

Props(step) ==
  [step |-> step, now |-> Timeline[step].now, currentMG |-> Timeline[step].currentMG,
   currentRevenue |-> Timeline[step].currentRevenue]

InitSnapshots ==
  /\ kgal = 10
  /\ dollar = 1
  /\ pc = "start"
  /\ tiers = <<>>
  /\ normalizedTiers = Idle
  /\ heap = Idle
  /\ validation = Idle
  /\ inputs = Props(1)
  /\ result = [snapshots |-> <<>>, dispatched |-> <<>>]
  /\ state = [snapshots |-> <<>>,
              displayedMG |-> Props(1).currentMG,
              displayedRevenue |-> Props(1).currentRevenue]

handleCapture ==
  /\ state' = [snapshots |-> CaptureInto(state.snapshots, NewSnapshot(inputs)),
               displayedMG |-> inputs.currentMG,
               displayedRevenue |-> inputs.currentRevenue]
  /\ result' = [snapshots |-> state.snapshots, dispatched |-> <<SNAPSHOT_CAPTURE_EVENT>>]
  /\ pc' = "handleCapture"
  /\ UNCHANGED <<heap, kgal, dollar, tiers, normalizedTiers, validation, inputs>>

handleUndo ==
  /\ state' =
       IF Len(state.snapshots) > 0
       THEN IF Len(state.snapshots) > 1
            THEN [snapshots |-> DropLast(state.snapshots),
                  displayedMG |-> state.snapshots[Len(state.snapshots) - 1].mg,
                  displayedRevenue |-> state.snapshots[Len(state.snapshots) - 1].revenue]
            ELSE [snapshots |-> DropLast(state.snapshots),
                  displayedMG |-> inputs.currentMG,
                  displayedRevenue |-> inputs.currentRevenue]
       ELSE state
  /\ result' = [snapshots |-> state.snapshots, dispatched |-> <<>>]
  /\ pc' = "handleUndo"
  /\ UNCHANGED <<heap, kgal, dollar, tiers, normalizedTiers, validation, inputs>>

handleClearAll ==
  /\ state' = [snapshots |-> <<>>,
               displayedMG |-> inputs.currentMG,
               displayedRevenue |-> inputs.currentRevenue]
  /\ result' = [snapshots |-> state.snapshots, dispatched |-> <<>>]
  /\ pc' = "handleClearAll"
  /\ UNCHANGED <<heap, kgal, dollar, tiers, normalizedTiers, validation, inputs>>

\* the parent renders the component again, later, with the figures of the
\* next point of the timeline
Rerender ==
  /\ inputs.step < Len(Timeline)
  /\ inputs' = Props(inputs.step + 1)
  /\ result' = [snapshots |-> state.snapshots, dispatched |-> <<>>]
  /\ pc' = "render"
  /\ UNCHANGED <<heap, kgal, dollar, tiers, normalizedTiers, validation, state>>

NextSnapshots == handleCapture \/ handleUndo \/ handleClearAll \/ Rerender

SpecSnapshots == InitSnapshots /\ [][NextSnapshots]_vars

(***************************************************************************)
(* C18: the snapshot history never holds more than 20 snapshots; a Capture *)
(* made while 20 are held discards the oldest, keeps the other 19 in order *)
(* and appends the new snapshot (the current figures) as the most recent.  *)
(***************************************************************************)
C18_HistoryCapped ==
  /\ Len(state.snapshots) <= 20
  /\ (pc = "handleCapture" /\ Len(result.snapshots) = 20) =>
       /\ Len(state.snapshots) = 20
       /\ \A i \in 1 .. 19 : state.snapshots[i] = result.snapshots[i + 1]
       /\ state.snapshots[20].mg = inputs.currentMG
       /\ state.snapshots[20].revenue = inputs.currentRevenue
       /\ state.snapshots[20].id = inputs.now

\* a Capture on a full history whose oldest snapshot differs from the rest
C18_Witness ==
  /\ pc = "handleCapture"
  /\ Len(result.snapshots) = 20
  /\ result.snapshots[1] # result.snapshots[2]
  /\ result.snapshots[1] # state.snapshots[1]
  /\ state.snapshots[20] # state.snapshots[19]

(***************************************************************************)
(* WaterRateSimulator (components/water-rate-simulator.tsx).  state holds  *)
(* the ten useState values.  A value that is null or an object (anchor,    *)
(* draws) is the empty tuple when null and a one-element tuple otherwise.  *)
(* Tier ids, decimal strings in the source, are kept as the numbers they   *)
(* spell.  Text typed into a number field is the number it parses to, NaN  *)
(* when it does not parse.                                                 *)
(***************************************************************************)
TYPICAL_USE_MIN == 3 * kgal

USAGE_VARIETY_MIN == 30

USAGE_VARIETY_MAX == 50

BILL_SALIENCE_MIN == 0

BILL_SALIENCE_MAX == 20

clamp(value, min, max) == MathMin(MathMax(value, min), max)

UiTier(id, lo, up, pr) == [id |-> id, lower |-> lo, upper |-> up, price |-> pr]

\* the useState initial values
InitialState ==
  [connections |-> 1000,
   elasticity |-> 0 - 3,
   baseFee |-> 25 * dollar,
   tiers |-> << UiTier(1, 0, 5 * kgal, (350 * dollar) \div 100),
                UiTier(2, 5 * kgal, 10 * kgal, (425 * dollar) \div 100),
                UiTier(3, 10 * kgal, null, 5 * dollar) >>,
   validationMessage |-> "",
   anchor |-> <<>>,
   draws |-> <<>>,
   typicalUse |-> 7 * kgal,
   usageVar |-> 40,
   billSalience |-> 5]

\* tierValidation.tiers of the render
safeTiers(st) == validateTiers(normalizeTiers(st.tiers)).tiers

effectiveTypicalUse(st) == MathMax(st.typicalUse, TYPICAL_USE_MIN)

\* mutant of freezeBaseline: the force flag ignored, every call freezes
freezeBaselineAlways(st, force, generated) ==
  [st EXCEPT
     !.anchor = << [usage |-> effectiveTypicalUse(st),
                    perceivedPrice |->
                      computePerceivedPrice(effectiveTypicalUse(st), safeTiers(st),
                                            st.baseFee, DEFAULT_ALPHA, st.billSalience)] >>,
     !.draws = <<generated>>]

\* mutant of freezeBaseline: the anchor set without the draws
freezeBaselineAnchorOnly(st, force, generated) ==
  IF st.anchor # <<>> /\ ~force
  THEN st
  ELSE [st EXCEPT
          !.anchor = << [usage |-> effectiveTypicalUse(st),
                         perceivedPrice |->
                           computePerceivedPrice(effectiveTypicalUse(st), safeTiers(st),
                                                 st.baseFee, DEFAULT_ALPHA, st.billSalience)] >>]

\* freezeBaseline(force); generated is what generateMonteCarloDraws() returns
freezeBaseline(st, force, generated) ==
  IF st.anchor # <<>> /\ ~force
  THEN st
  ELSE [st EXCEPT
          !.anchor = << [usage |-> effectiveTypicalUse(st),
                         perceivedPrice |->
                           computePerceivedPrice(effectiveTypicalUse(st), safeTiers(st),
                                                 st.baseFee, DEFAULT_ALPHA, st.billSalience)] >>,
          !.draws = <<generated>>]

RECURSIVE MaxId(_)
MaxId(ts) == IF ts = <<>> THEN 0 ELSE MathMax(ts[1].id, MaxId(Tail(ts)))

\* the tier handleAddTier appends
AddedTier(ts) ==
  LET previousTier == ts[Len(ts)]
  IN  UiTier(MaxId(ts) + 1,
             IF ts = <<>> THEN 0
             ELSE IF previousTier.upper = null THEN previousTier.lower ELSE previousTier.upper,
             null,
             IF ts = <<>> THEN 0 ELSE previousTier.price + dollar)

\* tiers.filter((t) => t.id !== id)
RECURSIVE WithoutId(_, _)
WithoutId(ts, id) ==
  IF ts = <<>> THEN <<>>
  ELSE IF ts[1].id = id THEN WithoutId(Tail(ts), id)
  ELSE <<ts[1]>> \o WithoutId(Tail(ts), id)

\* the map callback of handleUpdateTier
UpdatedTier(tier, id, field, parsed) ==
  IF tier.id # id THEN tier
  ELSE IF field = "price" THEN [tier EXCEPT !.price = IF IsFinite(parsed) THEN parsed ELSE 0]
  ELSE IF field = "upper" THEN [tier EXCEPT !.upper = IF IsFinite(parsed) THEN parsed ELSE null]
  ELSE [tier EXCEPT !.lower = IF IsFinite(parsed) THEN parsed ELSE 0]

(***************************************************************************)
(* SpecSimulator: the handlers of the simulator.  Each number field takes  *)
(* an unparsable entry and one value; the draws a freeze generates are one *)
(* of two small populations.                                               *)
(***************************************************************************)
MaxTierId == 3

GeneratedDraws ==
  { [q0 |-> <<0 - 10, 10>>, eps |-> <<10, 0 - 20>>],
    [q0 |-> <<10, 10>>, eps |-> <<0 - 20, 0 - 20>>] }

\* the delete button used, and the tier fields typed into: id, field, entry
DeletedIds == {3}

TierEntries == { <<2, "upper", NaN>>, <<1, "price", NaN>>, <<3, "lower", 12 * kgal>> }

InitSimulator ==
  /\ kgal = 10
  /\ dollar = 100
  /\ pc = "start"
  /\ tiers = <<>>
  /\ normalizedTiers = Idle
  /\ heap = Idle
  /\ validation = Idle
  /\ inputs = <<>>
  /\ result = <<>>
  /\ state = InitialState

\* onChange of the connections field
setConnections ==
  \E parsed \in {NaN, 1000} :
    /\ state' = [state EXCEPT !.connections = OrZero(parsed)]
    /\ pc' = "edit"
    /\ UNCHANGED <<heap, kgal, dollar, tiers, normalizedTiers, validation, inputs, result>>

\* onChange of the elasticity slider
setElasticity ==
  \E parsed \in {0 - 3, 0 - 2} :
    /\ state' = [state EXCEPT !.elasticity = parsed]
    /\ pc' = "edit"
    /\ UNCHANGED <<heap, kgal, dollar, tiers, normalizedTiers, validation, inputs, result>>

\* onChange of the base fee field
setBaseFee ==
  \E parsed \in {NaN, 25 * dollar} :
    /\ state' = [state EXCEPT !.baseFee = OrZero(parsed)]
    /\ pc' = "edit"
    /\ UNCHANGED <<heap, kgal, dollar, tiers, normalizedTiers, validation, inputs, result>>

\* onChange of the typical use field
setTypicalUse ==
  \E next \in {NaN, kgal, 7 * kgal} :
    /\ state' = [state EXCEPT !.typicalUse =
                   IF IsFinite(next) THEN MathMax(next, TYPICAL_USE_MIN)
                   ELSE TYPICAL_USE_MIN]
    /\ pc' = "edit"
    /\ UNCHANGED <<heap, kgal, dollar, tiers, normalizedTiers, validation, inputs, result>>

\* onChange of the usage variety slider
setUsageVar ==
  \E next \in {NaN, 40} :
    /\ state' = [state EXCEPT !.usageVar =
                   IF IsFinite(next) THEN clamp(next, USAGE_VARIETY_MIN, USAGE_VARIETY_MAX)
                   ELSE USAGE_VARIETY_MIN]
    /\ pc' = "edit"
    /\ UNCHANGED <<heap, kgal, dollar, tiers, normalizedTiers, validation, inputs, result>>

\* onChange of the bill salience slider
setBillSalience ==
  \E next \in {NaN, 5} :
    /\ state' = [state EXCEPT !.billSalience =
                   IF IsFinite(next) THEN clamp(next, BILL_SALIENCE_MIN, BILL_SALIENCE_MAX)
                   ELSE BILL_SALIENCE_MIN]
    /\ pc' = "edit"
    /\ UNCHANGED <<heap, kgal, dollar, tiers, normalizedTiers, validation, inputs, result>>

handleAddTier ==
  /\ Len(state.tiers) < MaxTiers
  /\ MaxId(state.tiers) < MaxTierId
  /\ state' = [state EXCEPT !.tiers = state.tiers \o <<AddedTier(state.tiers)>>,
                             !.validationMessage = ""]
  /\ pc' = "edit"
  /\ UNCHANGED <<heap, kgal, dollar, tiers, normalizedTiers, validation, inputs, result>>

handleDeleteTier ==
  \E id \in DeletedIds :
    /\ state' = IF Len(state.tiers) > 1
                 THEN [state EXCEPT !.tiers = WithoutId(state.tiers, id),
                                    !.validationMessage = ""]
                 ELSE [state EXCEPT !.validationMessage = "Must have at least one tier"]
    /\ pc' = "edit"
    /\ UNCHANGED <<heap, kgal, dollar, tiers, normalizedTiers, validation, inputs, result>>

handleUpdateTier ==
  \E entry \in TierEntries :
    /\ state' = [state EXCEPT !.tiers =
                   [i \in 1 .. Len(state.tiers) |->
                      UpdatedTier(state.tiers[i], entry[1], entry[2], entry[3])]]
    /\ pc' = "edit"
    /\ UNCHANGED <<heap, kgal, dollar, tiers, normalizedTiers, validation, inputs, result>>

\* the Set Baseline button
handleBaselineClick ==
  \E generated \in GeneratedDraws :
    /\ state' = freezeBaseline(state, TRUE, generated)
    /\ pc' = "handleBaselineClick"
    /\ UNCHANGED <<heap, kgal, dollar, tiers, normalizedTiers, validation, inputs, result>>

\* the listener of SNAPSHOT_CAPTURE_EVENT
handleSnapshotCapture ==
  \E generated \in GeneratedDraws :
    /\ state' = freezeBaseline(state, FALSE, generated)
    /\ pc' = "handleSnapshotCapture"
    /\ UNCHANGED <<heap, kgal, dollar, tiers, normalizedTiers, validation, inputs, result>>

NextSimulator ==
  \/ setConnections
  \/ setElasticity
  \/ setBaseFee
  \/ setTypicalUse
  \/ setUsageVar
  \/ setBillSalience
  \/ handleAddTier
  \/ handleDeleteTier
  \/ handleUpdateTier
  \/ handleBaselineClick
  \/ handleSnapshotCapture

SpecSimulator == InitSimulator /\ [][NextSimulator]_vars

(***************************************************************************)
(* C19: once a baseline is frozen, no Capture event and no edit of         *)
(* connections, elasticity, base fee, tiers, typical use, usage variety or *)
(* bill salience changes the anchor or the draws: only a Set Baseline      *)
(* click replaces them.  While no baseline is set, only a Set Baseline     *)
(* click or a Capture event sets one.                                      *)
(***************************************************************************)
C19_BaselineHeldUntilReset ==
  [][ /\ (state.anchor # <<>> /\ pc' # "handleBaselineClick") =>
           (state'.anchor = state.anchor /\ state'.draws = state.draws)
      /\ (state.anchor = <<>> /\ pc' \notin {"handleBaselineClick", "handleSnapshotCapture"}) =>
           (state'.anchor = <<>> /\ state'.draws = <<>>)
      /\ (state.anchor = <<>> /\ pc' = "handleSnapshotCapture") =>
           (state'.anchor # <<>> /\ state'.draws # <<>>) ]_vars

\* a Capture event arrives after the frozen scenario has been edited: the
\* anchor held is no longer the one a freeze would take now
C19_Witness ==
  /\ pc = "handleSnapshotCapture"
  /\ state.anchor # <<>>
  /\ state.draws # <<>>
  /\ state.anchor # freezeBaseline(state, TRUE, state.draws[1]).anchor
  /\ state.tiers # InitialState.tiers
  /\ state.connections # InitialState.connections

(***************************************************************************)
(* C27: in every reachable state of the simulator the anchor is null       *)
(* exactly when the draws are null, so the Monte Carlo path (anchor &&     *)
(* draws) is never missed with only one of the two set.                    *)
(***************************************************************************)
C27_AnchorAndDrawsTogether == (state.anchor = <<>>) <=> (state.draws = <<>>)

\* a Set Baseline click after the typical use was lowered to its minimum:
\* both are set, and the anchor is at the usage in force at the click
C27_Witness ==
  /\ pc = "handleBaselineClick"
  /\ state.anchor # <<>>
  /\ state.draws # <<>>
  /\ state.typicalUse = TYPICAL_USE_MIN
  /\ state.anchor[1].usage = TYPICAL_USE_MIN

(***************************************************************************)
(* buildUsageHistogram and computeTierOccupancy.  A share, a quotient of a *)
(* count or a volume by the total, is kept as the pair of its numerator    *)
(* and denominator.                                                        *)
(***************************************************************************)
\* usages.reduce((sum, val) => sum + Math.max(val, 0), 0)
RECURSIVE VolumeOf(_)
VolumeOf(usages) ==
  IF usages = <<>> THEN 0
  ELSE Plus(VolumeOf(SubSeq(usages, 1, Len(usages) - 1)), MathMax(usages[Len(usages)], 0))

\* Math.min(Math.floor(clampedValue / binWidth), binCount - 1), counted from 0
BinIndex(value, binWidth, binCount) ==
  IF MathMax(0, value) = NaN THEN NaN
  ELSE IF MathMax(0, value) = POSITIVE_INFINITY THEN binCount - 1
  ELSE MathMin(MathMax(0, value) \div binWidth, binCount - 1)

\* the sum of clampedValue / totalVolume over the usages of bin idx, as
\* <<numerator, denominator>>: Infinity / Infinity is NaN, and a finite
\* volume over an infinite total is 0
RECURSIVE VolShare(_, _, _, _, _)
VolShare(usages, idx, binWidth, binCount, totalVolume) ==
  IF usages = <<>> THEN <<0, totalVolume>>
  ELSE IF BinIndex(usages[Len(usages)], binWidth, binCount) + 1 # idx
       THEN VolShare(SubSeq(usages, 1, Len(usages) - 1), idx, binWidth, binCount, totalVolume)
       ELSE <<Plus(VolShare(SubSeq(usages, 1, Len(usages) - 1), idx, binWidth, binCount,
                            totalVolume)[1],
                   IF totalVolume # POSITIVE_INFINITY THEN MathMax(0, usages[Len(usages)])
                   ELSE IF MathMax(0, usages[Len(usages)]) = POSITIVE_INFINITY THEN NaN
                   ELSE 0),
              totalVolume>>

\* the bins, given totalVolume and binCount
Bins(usages, binWidth, binCount, totalVolume) ==
  [idx \in 1 .. binCount |->
     [binStart |-> (idx - 1) * binWidth,
      binEnd |-> IF idx = binCount THEN POSITIVE_INFINITY ELSE idx * binWidth,
      popShare |-> <<Cardinality({i \in 1 .. Len(usages) :
                                    BinIndex(usages[i], binWidth, binCount) + 1 = idx}),
                     Len(usages)>>,
      volShare |-> VolShare(usages, idx, binWidth, binCount, totalVolume)]]

\* bins[idx] is undefined for idx = NaN, and reading its popShare throws
buildUsageHistogramThrows(usages, binWidth, maxKgal) ==
  \E i \in 1 .. Len(usages) : BinIndex(usages[i], binWidth, (maxKgal \div binWidth) + 1) = NaN

\* the bins returned when the call returns; the volume unit is 1/kgal, so
\* the 1 of "|| 1" is kgal
buildUsageHistogram(usages, binWidth, maxKgal) ==
  IF Len(usages) = 0 THEN <<>>
  ELSE Bins(usages, binWidth, (maxKgal \div binWidth) + 1,
            IF VolumeOf(usages) = 0 \/ VolumeOf(usages) = NaN THEN kgal ELSE VolumeOf(usages))

\* the index, counted from 1, of the first tier holding the usage
RECURSIVE ActiveFrom(_, _, _)
ActiveFrom(ts, usage, i) ==
  IF i > Len(ts) THEN MathMax(0, Len(ts) - 1) + 1
  ELSE IF usage >= ts[i].lower
          /\ usage < (IF ts[i].upper = null THEN POSITIVE_INFINITY ELSE ts[i].upper)
       THEN i
       ELSE ActiveFrom(ts, usage, i + 1)

activeTierIndex(ts, usage) == ActiveFrom(ts, usage, 1)

tierKeys(ts) ==
  [idx \in 1 .. Len(ts) |->
     IF idx = Len(ts) /\ ts[idx].upper = null THEN "Punitive" ELSE "Tier " \o ToString(idx)]

\* the shares object: label, and one share per key (tier lists are not empty)
computeTierOccupancy(ts, usages) ==
  LET keys == tierKeys(ts)
      counts == [idx \in 1 .. Len(keys) |->
                   Cardinality({i \in 1 .. Len(usages) : activeTierIndex(ts, usages[i]) = idx})]
      total == IF Len(usages) = 0 THEN 1 ELSE Len(usages)
  IN  [label |-> "",
       shares |-> [idx \in 1 .. Len(keys) |-> [key |-> keys[idx], share |-> <<counts[idx], total>>]]]

(***************************************************************************)
(* The arrays of a call.  heap maps a reference to the array it names: the *)
(* five arrays the caller holds, the array the last call returned, and the *)
(* last array a call worked on without returning it.  map, spread,         *)
(* Array.from and a literal allocate a new array; sort reorders the array  *)
(* it is called on.                                                        *)
(***************************************************************************)
CallerArrays == {"tiers", "q0", "eps", "qBaseline", "qProposal"}

Allocate(h, new, value) == [h EXCEPT ![new] = value]

SortInPlace(h, ref, sorted) == [h EXCEPT ![ref] = sorted]

\* sort called on the array ref names, ordered by lower
SortTiersInPlace(h, ref) == SortInPlace(h, ref, SortByLower(h[ref]))

\* sort called on the array ref names, ascending
SortNumbersInPlace(h, ref) == SortInPlace(h, ref, SortAscending(h[ref]))

\* tiers.map(...) of normalizeTiers, allocated at new
MapNormalized(h, ts, new) ==
  Allocate(h, new, [i \in 1 .. Len(h[ts]) |-> NormalizeTier(h[ts][i])])

\* mutant of normalizeTiersEffect: the argument itself is sorted
normalizeTiersSortsArgument(h, ts) == MapNormalized(SortTiersInPlace(h, ts), ts, "returned")

\* tiers.map(...).sort(...)
normalizeTiersEffect(h, ts) == SortTiersInPlace(MapNormalized(h, ts, "returned"), "returned")

\* validateTiers returns its argument when valid, a new one-tier array
\* otherwise
validateTiersEffect(h, ts) ==
  IF validateTiers(h[ts]).isValid THEN h
  ELSE Allocate(h, "returned", validateTiers(h[ts]).tiers)

validateTiersReturns(h, ts) == IF validateTiers(h[ts]).isValid THEN ts ELSE "returned"

\* normalizeTiers(inputs.tiers), then validateTiers(normalizedTiers)
calculateDemandEffect(h, ts) == validateTiersEffect(normalizeTiersEffect(h, ts), "returned")

\* the two sample arrays are copied and the copies sorted
SamplesSorted(h, usageSamples, billSamples) ==
  SortNumbersInPlace(
    Allocate(SortNumbersInPlace(Allocate(h, "scratch", usageSamples), "scratch"),
             "scratch", billSamples),
    "scratch")

\* the bills of the loop, then the sorted copies
SamplesEffect(h, params, usageSamples) ==
  SamplesSorted(h, usageSamples, BillSamples(params, usageSamples))

\* seeds.map allocates the baseline usages; the loop fills the samples
BaselineUsagesEffect(h, params, baselineUsages) ==
  SamplesEffect(Allocate(h, "scratch", baselineUsages), params,
                UsageSamples(params, baselineUsages,
                             MathMin(Len(params.draws.q0), Len(params.draws.eps))))

\* nothing is allocated when there is no sample
runMonteCarloSimulationEffect(h, params) ==
  IF MathMin(Len(params.draws.q0), Len(params.draws.eps)) = 0 THEN h
  ELSE BaselineUsagesEffect(
         h, params,
         buildUsageDraws(params.anchor.usage, params.usageVar, params.draws.q0))

\* Array.from for the bins; reduce and forEach read the usages
buildUsageHistogramEffect(h, usages) ==
  Allocate(h, "returned", buildUsageHistogram(h[usages], kgal, 30 * kgal))

\* tiers.map for the keys, keys.map for the counts
computeTierOccupancyEffect(h, ts, usages) ==
  Allocate(Allocate(h, "scratch", tierKeys(h[ts])), "scratch",
           [idx \in 1 .. Len(h[ts]) |->
              Cardinality({i \in 1 .. Len(h[usages]) :
                             activeTierIndex(h[ts], h[usages][i]) = idx})])

\* Array.from for the indices, sorted in place by q0
IndicesSorted(h, q0, sampleCount) ==
  SortInPlace(Allocate(h, "scratch", [i \in 1 .. sampleCount |-> i]), "scratch",
              SortedIndices(sampleCount, h[q0]))

\* the impacts are a new array
computeDecileImpactsEffect(h, q0, q1, connections) ==
  Allocate(IF MathMin(Len(h[q0]), Len(h[q1])) = 0 \/ connections = 0 THEN h
           ELSE IndicesSorted(h, q0, MathMin(Len(h[q0]), Len(h[q1]))),
           "returned", computeDecileImpacts(h[q0], h[q1], connections))

(***************************************************************************)
(* SpecCalls: a caller holding a tier list (sorted or not, normal or not), *)
(* a pair of draws and two usage arrays calls the core operations in any   *)
(* order.  inputs keeps what the arrays held at first.                     *)
(***************************************************************************)
CallerTierLists ==
  { <<Tier(0, 5 * kgal, 350), Tier(5 * kgal, 10 * kgal, 425), Tier(10 * kgal, null, 500)>>,
    <<Tier(5 * kgal, 10 * kgal, 425), Tier(10 * kgal, null, 500), Tier(0, 5 * kgal, 350)>>,
    <<Tier(5 * kgal, null, 425), Tier(0 - kgal, 5 * kgal, 0 - 350)>> }

CallerUsages == { <<<<70, 30, 120, 50>>, <<0 - 10, 400, 20>>>>, <<<<>>, <<70, 30, 120, 50>>>> }

InitCalls ==
  /\ kgal = 10
  /\ dollar = 100
  /\ pc = "start"
  /\ tiers = <<>>
  /\ normalizedTiers = Idle
  /\ validation = Idle
  /\ state = Idle
  /\ result = <<>>
  /\ \E ts \in CallerTierLists, d \in GeneratedDraws, u \in CallerUsages :
       /\ inputs = [tiers |-> ts, q0 |-> d.q0, eps |-> d.eps,
                    qBaseline |-> u[1], qProposal |-> u[2]]
       /\ heap = [tiers |-> ts, q0 |-> d.q0, eps |-> d.eps,
                  qBaseline |-> u[1], qProposal |-> u[2],
                  returned |-> <<>>, scratch |-> <<>>]

\* the scalar arguments of the calls
CallParams(h, ts) ==
  [connections |-> 6000,
   baseFee |-> 25 * dollar,
   tiers |-> h[ts],
   anchor |-> [usage |-> 7 * kgal, perceivedPrice |-> 416],
   draws |-> [q0 |-> h["q0"], eps |-> h["eps"]],
   elasticityMean |-> 0 - 3,
   elasticity |-> 0 - 3,
   baseline |-> [usage |-> 7 * kgal, perceivedPrice |-> 416],
   usageVar |-> 40,
   validationMessage |-> NoMessage,
   billSalience |-> DEFAULT_BILL_SALIENCE]

\* the call made, the value it returned when it is not an array, and the
\* reference of the array it returned or passed on
Returned(call, value, ref) == [call |-> call, value |-> value, ref |-> ref]

NormalizeTiersCall ==
  /\ heap' = normalizeTiersEffect(heap, "tiers")
  /\ result' = Returned("normalizeTiers", <<>>, "returned")
  /\ pc' = "normalizeTiers"
  /\ UNCHANGED <<state, kgal, dollar, tiers, normalizedTiers, validation, inputs>>

\* validateTiers on the caller's list, or on the list normalizeTiers returned
ValidateTiersCall ==
  \E ts \in {"tiers"} \cup (IF pc = "normalizeTiers" THEN {"returned"} ELSE {}) :
    /\ heap' = validateTiersEffect(heap, ts)
    /\ result' = Returned("validateTiers",
                          [isValid |-> validateTiers(heap[ts]).isValid],
                          validateTiersReturns(heap, ts))
    /\ pc' = "validateTiers"
    /\ UNCHANGED <<state, kgal, dollar, tiers, normalizedTiers, validation, inputs>>

CalculateDemandCall ==
  /\ heap' = calculateDemandEffect(heap, "tiers")
  /\ result' = Returned("calculateDemand", calculateDemand(CallParams(heap, "tiers")), "returned")
  /\ pc' = "calculateDemand"
  /\ UNCHANGED <<state, kgal, dollar, tiers, normalizedTiers, validation, inputs>>

RunMonteCarloSimulationCall ==
  /\ heap' = runMonteCarloSimulationEffect(heap, CallParams(heap, "tiers"))
  /\ result' = Returned("runMonteCarloSimulation",
                        runMonteCarloSimulation(CallParams(heap, "tiers")), "tiers")
  /\ pc' = "runMonteCarloSimulation"
  /\ UNCHANGED <<state, kgal, dollar, tiers, normalizedTiers, validation, inputs>>

BuildUsageHistogramCall ==
  \E usages \in {"qBaseline", "qProposal"} :
    /\ heap' = buildUsageHistogramEffect(heap, usages)
    /\ result' = Returned("buildUsageHistogram", <<>>, "returned")
    /\ pc' = "buildUsageHistogram"
    /\ UNCHANGED <<state, kgal, dollar, tiers, normalizedTiers, validation, inputs>>

ComputeTierOccupancyCall ==
  \E usages \in {"qBaseline", "qProposal"} :
    /\ heap' = computeTierOccupancyEffect(heap, "tiers", usages)
    /\ result' = Returned("computeTierOccupancy",
                          computeTierOccupancy(heap["tiers"], heap[usages]), "none")
    /\ pc' = "computeTierOccupancy"
    /\ UNCHANGED <<state, kgal, dollar, tiers, normalizedTiers, validation, inputs>>

ComputeDecileImpactsCall ==
  /\ heap' = computeDecileImpactsEffect(heap, "qBaseline", "qProposal", 12000)
  /\ result' = Returned("computeDecileImpacts", <<>>, "returned")
  /\ pc' = "computeDecileImpacts"
  /\ UNCHANGED <<state, kgal, dollar, tiers, normalizedTiers, validation, inputs>>

NextCalls ==
  \/ NormalizeTiersCall
  \/ ValidateTiersCall
  \/ CalculateDemandCall
  \/ RunMonteCarloSimulationCall
  \/ BuildUsageHistogramCall
  \/ ComputeTierOccupancyCall
  \/ ComputeDecileImpactsCall

SpecCalls == InitCalls /\ [][NextCalls]_vars

(***************************************************************************)
(* C20: no core operation mutates what it is given: after any sequence of  *)
(* calls of normalizeTiers, validateTiers, calculateDemand,                *)
(* runMonteCarloSimulation, buildUsageHistogram, computeTierOccupancy and  *)
(* computeDecileImpacts the caller's tier list, draws and usage arrays     *)
(* hold the elements they held at first, in the same order.                *)
(***************************************************************************)
C20_CallerArraysUntouched ==
  \A ref \in CallerArrays : heap[ref] = inputs[ref]

\* normalizeTiers has returned a reordered, renormalised copy of an unsorted
\* tier list
C20_Witness ==
  /\ pc = "normalizeTiers"
  /\ heap["returned"] # heap["tiers"]
  /\ heap["returned"] = normalizeTiers(inputs["tiers"])
  /\ heap["tiers"] # SortByLower(heap["tiers"])
  /\ heap["scratch"] # <<>>

(***************************************************************************)
(* C21: Undo removes exactly the most recent snapshot and leaves every     *)
(* earlier snapshot unchanged and in order; Undo on an empty history       *)
(* changes nothing; Clear All empties the history from any state.          *)
(***************************************************************************)
UndoStep ==
  /\ pc' = "handleUndo"
  /\ IF state.snapshots = <<>>
     THEN state' = state
     ELSE /\ Len(state'.snapshots) = Len(state.snapshots) - 1
          /\ \A i \in 1 .. Len(state.snapshots) - 1 :
               state'.snapshots[i] = state.snapshots[i]

ClearStep == pc' = "handleClearAll" /\ state'.snapshots = <<>>

OtherStep == pc' \notin {"handleUndo", "handleClearAll"}

C21_UndoAndClear == [][UndoStep \/ ClearStep \/ OtherStep]_vars

\* an Undo has just removed the newest of at least three snapshots that
\* differ from one another at both ends
C21_Witness ==
  /\ pc = "handleUndo"
  /\ Len(result.snapshots) >= 3
  /\ result.snapshots[1] # result.snapshots[Len(result.snapshots)]
  /\ result.snapshots[1] # result.snapshots[2]
  /\ Len(state.snapshots) = Len(result.snapshots) - 1
  /\ state.snapshots[1] = result.snapshots[1]

(***************************************************************************)
(* SpecHistogram: buildUsageHistogram called on a non-empty usage list.    *)
(* Usages are in 1/kgal; the bins are those of the defaults (width 1, 30   *)
(* and above in the last bin) or a coarse set whose maxKgal is not a       *)
(* multiple of the width.                                                  *)
(***************************************************************************)
HistogramUsages ==
  {NaN, POSITIVE_INFINITY, 0 - 5, 0, 7, 10, 25, 299, 300, 455}

MaxUsages == 3

UsageLists ==
  UNION { [1 .. n -> HistogramUsages] : n \in 1 .. MaxUsages }

\* <<binWidth, maxKgal>>
HistogramBins == { <<kgal, 30 * kgal>>, <<2 * kgal, 5 * kgal>> }

InitHistogram ==
  /\ kgal = 10
  /\ dollar = 100
  /\ pc = "start"
  /\ tiers = <<>>
  /\ normalizedTiers = Idle
  /\ validation = Idle
  /\ state = Idle
  /\ heap = Idle
  /\ result = <<>>
  /\ \E us \in UsageLists, b \in HistogramBins :
       inputs = [usages |-> us, binWidth |-> b[1], maxKgal |-> b[2]]

BuildUsageHistogram ==
  /\ pc = "start"
  /\ pc' = "done"
  /\ result' =
       IF buildUsageHistogramThrows(inputs.usages, inputs.binWidth, inputs.maxKgal)
       THEN [threw |-> TRUE, bins |-> <<>>]
       ELSE [threw |-> FALSE,
             bins |-> buildUsageHistogram(inputs.usages, inputs.binWidth, inputs.maxKgal)]
  /\ UNCHANGED <<kgal, dollar, tiers, normalizedTiers, validation, state, heap, inputs>>

NextHistogram == BuildUsageHistogram

SpecHistogram == InitHistogram /\ [][NextHistogram]_vars

\* the usages a bin is said to hold: those of [binStart, binEnd), and for
\* the last bin those at or above its start
HeldBy(bin, last) ==
  {i \in 1 .. Len(inputs.usages) :
     /\ inputs.usages[i] # NaN
     /\ inputs.usages[i] >= bin.binStart
     /\ last \/ inputs.usages[i] < bin.binEnd}

\* the sum of the first components of the shares taken from bins
RECURSIVE Numerators(_, _)
Numerators(bins, share) ==
  IF bins = <<>> THEN 0
  ELSE Plus(Numerators(Tail(bins), share),
            IF share = "pop" THEN bins[1].popShare[1] ELSE bins[1].volShare[1])

SharesSumToOne(bins, share) ==
  Numerators(bins, share) =
    (IF share = "pop" THEN bins[1].popShare[2] ELSE bins[1].volShare[2])

(***************************************************************************)
(* C22: for every non-empty usage list, buildUsageHistogram puts each      *)
(* usage in exactly one bin, the fixed-width bin that contains it when it  *)
(* is below the cutoff and the last, open-ended bin otherwise; the         *)
(* popShare values sum to 1 and, when the total volume is positive, so do  *)
(* the volShare values.                                                    *)
(***************************************************************************)
C22_EachUsageInItsBin ==
  pc = "done" =>
    /\ ~result.threw
    /\ \A idx \in 1 .. Len(result.bins) :
         result.bins[idx].popShare[1] =
           Cardinality(HeldBy(result.bins[idx], idx = Len(result.bins)))
    /\ SharesSumToOne(result.bins, "pop")
    /\ VolumeOf(inputs.usages) # 0 => SharesSumToOne(result.bins, "vol")

\* the same, for lists of finite usages none of which is negative
C22_FiniteUsagesInTheirBins ==
  (\A i \in 1 .. Len(inputs.usages) : IsFinite(inputs.usages[i]) /\ inputs.usages[i] >= 0)
    => C22_EachUsageInItsBin

(***************************************************************************)
(* C26: calculateDemand called without a baseline anchor returns the       *)
(* default typical usage (7) as perConnectionUsage, whatever the           *)
(* elasticity, tier list, base fee and salience, so that usageMG depends   *)
(* on connections only; and whenever the reference price is the perceived  *)
(* price at the baseline usage under the tiers in use, solveUsage returns  *)
(* the baseline usage after one step.                                      *)
(***************************************************************************)
\* the inputs as calculateDemand coerces them
CoercedFee == MathMax(0, OrZero(inputs.baseFee))

CoercedSalience ==
  IF inputs.billSalience = null THEN DEFAULT_BILL_SALIENCE ELSE inputs.billSalience

CoercedElasticity ==
  IF IsFinite(inputs.elasticity) THEN inputs.elasticity ELSE DEFAULT_ELASTICITY

NoAnchor == inputs.baseline.usage = null /\ inputs.baseline.perceivedPrice = null

\* the perceived price at usage u under the tiers calculateDemand used
PerceivedAt(u) ==
  computePerceivedPrice(u, result[1].tiersUsed, CoercedFee, DEFAULT_ALPHA, CoercedSalience)

\* the arguments calculateDemand hands to solveUsage
ReferenceUsage ==
  clampUsage(IF inputs.baseline.usage = null THEN BASELINE_USAGE ELSE inputs.baseline.usage)

ReferencePrice ==
  MathMax(MIN_PRICE,
          IF inputs.baseline.perceivedPrice = null THEN PerceivedAt(ReferenceUsage)
          ELSE inputs.baseline.perceivedPrice)

\* the reference price is the perceived price at the baseline usage
AtFixedPoint ==
  /\ IsFinite(CoercedFee)
  /\ ReferencePrice = MathMax(MIN_PRICE, PerceivedAt(ReferenceUsage))

C26_AnchoredWitness ==
  /\ pc = "calculated"
  /\ inputs.baseline.usage = 5 * kgal
  /\ AtFixedPoint
  /\ inputs.elasticity = 0 - 8
  /\ inputs.baseFee = 25 * dollar
  /\ Len(result[1].tiersUsed) = 3
  /\ result[1].trace.perConnectionUsage = 5 * kgal

(***************************************************************************)
(* C28: after any sequence of Capture, Undo and Clear All, whenever the    *)
(* history is not empty the displayed water use and revenue are the mg and *)
(* revenue of the most recent snapshot.                                    *)
(***************************************************************************)
C28_DisplayedIsLatestSnapshot ==
  state.snapshots # <<>> =>
    /\ state.displayedMG = state.snapshots[Len(state.snapshots)].mg
    /\ state.displayedRevenue = state.snapshots[Len(state.snapshots)].revenue

\* an Undo has brought back a snapshot whose figures are neither those of
\* the snapshot removed nor those of the current scenario
C28_Witness ==
  /\ pc = "handleUndo"
  /\ Len(result.snapshots) >= 2
  /\ Len(state.snapshots) = Len(result.snapshots) - 1
  /\ state.displayedMG = state.snapshots[Len(state.snapshots)].mg
  /\ state.displayedMG # result.snapshots[Len(result.snapshots)].mg
  /\ state.displayedMG # inputs.currentMG
  /\ state.displayedRevenue # inputs.currentRevenue

(***************************************************************************)
(* C29: for every history length from 1 to 20, each charted snapshot (the  *)
(* last five at most) is labelled with its position in the history,        *)
(* counted from 1: the most recent one is v<length>, and no label has a    *)
(* zero or negative number.                                                *)
(***************************************************************************)
\* the position in the history of the k-th charted snapshot
PositionOf(snapshots, k) == Len(snapshots) - Len(chartData(snapshots)) + k

C29_LabelsArePositions ==
  state.snapshots # <<>> =>
    /\ Len(chartData(state.snapshots)) = MathMin(Len(state.snapshots), 5)
    /\ \A k \in 1 .. Len(chartData(state.snapshots)) :
         /\ chartData(state.snapshots)[k].label = PositionOf(state.snapshots, k)
         /\ chartData(state.snapshots)[k].label >= 1
         /\ chartData(state.snapshots)[k].mg = state.snapshots[PositionOf(state.snapshots, k)].mg
    /\ chartData(state.snapshots)[Len(chartData(state.snapshots))].label = Len(state.snapshots)

\* the same, for histories of five snapshots or more
C29_LabelsFromFiveOn == Len(state.snapshots) >= 5 => C29_LabelsArePositions

(***************************************************************************)
(* C30: each decile's pctOfTotal is its share of the total usage delta:    *)
(* the ten values sum to 1 whenever the total delta is not zero, and all   *)
(* are 0 when the total delta is zero, also when decile deltas that are    *)
(* not zero cancel out.                                                    *)
(***************************************************************************)
TotalDeltaMG == SumOf([d \in 1 .. 10 |-> result[1][d].deltaMG])

\* the ten shares <<numerator, denominator>> have one denominator, and
\* their numerators add up to it
SharesAddToOne ==
  /\ \A d \in 1 .. 10 : result[1][d].pctOfTotal[2] = result[1][1].pctOfTotal[2]
  /\ SumOf([d \in 1 .. 10 |-> result[1][d].pctOfTotal[1]]) = result[1][1].pctOfTotal[2]

SharesAllZero == \A d \in 1 .. 10 : result[1][d].pctOfTotal[1] = 0

C30_SharesOfTotalDelta ==
  pc = "deciles" =>
    /\ TotalDeltaMG # 0 => SharesAddToOne
    /\ TotalDeltaMG = 0 => SharesAllZero

\* the first half alone: the shares add to 1 when the total is not zero
C30_SharesAddToOneOffZero == (pc = "deciles" /\ TotalDeltaMG # 0) => SharesAddToOne

====
